---- MODULE Spec2Model ----
(***************************************************************************)
(* Model of the ECB exchange-rate client (EcbClient, src/src/client.ts):   *)
(* query resolution and validation, the single fetch, SDMX-JSON decoding,  *)
(* cross-rate adjustment and the reshaping of observations into results.   *)
(*                                                                         *)
(* Strings are modelled structurally: a currency code is a tuple of        *)
(* characters, a date string is a record of its fields plus a flag telling *)
(* whether the text has the YYYY-MM-DD shape.  Rates are exact rationals   *)
(* <<numerator, denominator>> in lowest terms.                             *)
(***************************************************************************)
EXTENDS Integers, Sequences, FiniteSets, TLC

VARIABLES config, clientBase, pc, call, resolved, request, fetchCount, body,
          observations, outcome, lab

vars == <<config, clientBase, pc, call, resolved, request, fetchCount, body,
          observations, outcome, lab>>

\* ---------------------------------------------------------------- bounds
MaxWs == 1

\* ------------------------------------------------------ program constants
DEFAULT_BASE_CURRENCY == <<"E", "U", "R">>
DEFAULT_LOOKBACK_DAYS == 10

\* ------------------------------------------------------- currency codes
EUR == <<"E", "U", "R">>
USD == <<"U", "S", "D">>
GBP == <<"G", "B", "P">>
Undefined == <<"undefined">>

UpperCase == {"A", "B", "C", "D", "E", "F", "G", "H", "I", "J", "K", "L", "M",
              "N", "O", "P", "Q", "R", "S", "T", "U", "V", "W", "X", "Y", "Z"}

\* ---------------------------------------------------------------- dates
\* fmt is TRUE exactly when the text is four digits, '-', two digits, '-',
\* two digits; y, m, d are then the three numbers.
Ymd(yy, mm, dd) == [fmt |-> TRUE, y |-> yy, m |-> mm, d |-> dd]
NoDate == [fmt |-> FALSE, y |-> -1, m |-> 0, d |-> 0]
NaNDate == [fmt |-> FALSE, y |-> 0, m |-> 0, d |-> 0]
NotADate == [fmt |-> FALSE, y |-> 0, m |-> 1, d |-> 1]

IsLeap(y) == (y % 4 = 0 /\ y % 100 # 0) \/ y % 400 = 0

DaysInMonth(y, m) ==
  IF m = 2 THEN (IF IsLeap(y) THEN 29 ELSE 28)
  ELSE IF m \in {4, 6, 9, 11} THEN 30 ELSE 31

\* new Date(`${dateStr}T00:00:00Z`) yields a valid time value
ParsesAsDate(s) ==
  /\ s.fmt
  /\ s.m \in 1..12
  /\ s.d \in 1..DaysInMonth(s.y, s.m)

PrevDay(t) ==
  IF t.d > 1 THEN [t EXCEPT !.d = t.d - 1]
  ELSE IF t.m > 1 THEN [t EXCEPT !.m = t.m - 1, !.d = DaysInMonth(t.y, t.m - 1)]
  ELSE [t EXCEPT !.y = t.y - 1, !.m = 12, !.d = 31]

RECURSIVE BackDays(_, _)
BackDays(t, n) == IF n = 0 THEN t ELSE BackDays(PrevDay(t), n - 1)

\* `${year}-${month padded to 2}-${day padded to 2}`: the year is not
\* padded, so the text has the YYYY-MM-DD shape only for 4-digit years.
FormatDate(t) == [fmt |-> t.y \in 1000..9999, y |-> t.y, m |-> t.m, d |-> t.d]

subtractCalendarDays(dateStr, days) ==
  IF ParsesAsDate(dateStr)
  THEN FormatDate(BackDays([y |-> dateStr.y, m |-> dateStr.m, d |-> dateStr.d], days))
  ELSE NaNDate

\* String order on two texts of the YYYY-MM-DD shape.
DateLess(a, b) ==
  \/ a.y < b.y
  \/ a.y = b.y /\ a.m < b.m
  \/ a.y = b.y /\ a.m = b.m /\ a.d < b.d

DateLeq(a, b) == a = b \/ DateLess(a, b)

\* ------------------------------------------------------------- rationals
RECURSIVE GCD(_, _)
GCD(a, b) == IF b = 0 THEN a ELSE GCD(b, a % b)

Abs(x) == IF x < 0 THEN -x ELSE x

Rat(n, d) ==
  LET s == IF d < 0 THEN -1 ELSE 1
      g == GCD(Abs(n), Abs(d))
  IN  <<(s * n) \div g, (s * d) \div g>>

RatMul(a, b) == Rat(a[1] * b[1], a[2] * b[2])
RatDiv(a, b) == Rat(a[1] * b[2], a[2] * b[1])
Zero == <<0, 1>>
One == <<1, 1>>
Null == <<0, 0>>

\* Math.round: the nearest integer, ties towards +infinity.
MathRound(x) == (2 * x[1] + x[2]) \div (2 * x[2])

\* ------------------------------------------------- insertion-ordered Map
\* A JavaScript Map is a sequence of <<key, value>> entries in insertion
\* order; set() on an existing key replaces the value in place.
MapHas(m, k) == \E i \in 1..Len(m) : m[i][1] = k

MapGet(m, k) == m[CHOOSE i \in 1..Len(m) : m[i][1] = k][2]

MapSet(m, k, v) ==
  IF MapHas(m, k)
  THEN [i \in 1..Len(m) |-> IF m[i][1] = k THEN <<k, v>> ELSE m[i]]
  ELSE Append(m, <<k, v>>)

MapKeys(m) == [i \in 1..Len(m) |-> m[i][1]]

Includes(seq, x) == \E i \in 1..Len(seq) : seq[i] = x

\* --------------------------------------------------------------- queries
\* ExchangeRateQuery: endDate = NoDate and baseCurrency = Undefined stand
\* for an absent property.
Query(cs, sd, ed, bc, fr) ==
  [currencies |-> cs, startDate |-> sd, endDate |-> ed, baseCurrency |-> bc,
   frequency |-> fr]

\* /^[A-Z]{3}$/
IsCurrencyCode(c) == Len(c) = 3 /\ \A i \in 1..Len(c) : c[i] \in UpperCase

\* /^\d{4}-\d{2}-\d{2}$/
IsDateFormat(s) == s.fmt

\* Variant without the date-order check.
validateQueryNoOrder(q) ==
  /\ Len(q.currencies) > 0
  /\ \A i \in 1..Len(q.currencies) : IsCurrencyCode(q.currencies[i])
  /\ IsDateFormat(q.startDate)
  /\ q.endDate # NoDate => IsDateFormat(q.endDate)
  /\ q.baseCurrency # Undefined => IsCurrencyCode(q.baseCurrency)
  /\ q.baseCurrency # Undefined =>
       ~(Len(q.currencies) = 1 /\ q.currencies[1] = q.baseCurrency)

\* validateQuery: TRUE when it returns, FALSE when it throws
\* EcbValidationError.
validateQuery(q) ==
  /\ Len(q.currencies) > 0
  /\ \A i \in 1..Len(q.currencies) : IsCurrencyCode(q.currencies[i])
  /\ IsDateFormat(q.startDate)
  /\ q.endDate # NoDate => IsDateFormat(q.endDate)
  /\ q.endDate # NoDate => ~DateLess(q.endDate, q.startDate)
  /\ q.baseCurrency # Undefined => IsCurrencyCode(q.baseCurrency)
  /\ q.baseCurrency # Undefined =>
       ~(Len(q.currencies) = 1 /\ q.currencies[1] = q.baseCurrency)

\* constructor: config.baseCurrency ?? DEFAULT_BASE_CURRENCY
Constructor(configBase) ==
  IF configBase # Undefined THEN configBase ELSE DEFAULT_BASE_CURRENCY

\* Variant in which the client's default replaces the query's baseCurrency.
resolveQueryClientWins(query, thisBase) == [query EXCEPT !.baseCurrency = thisBase]

\* Variant that leaves an absent baseCurrency absent.
resolveQueryNoDefault(query, thisBase) == query

resolveQuery(query, thisBase) ==
  IF query.baseCurrency # Undefined THEN query
  ELSE [query EXCEPT !.baseCurrency = thisBase]

\* Variant that appends the base currency even when the list holds it.
buildEurQueryAlwaysAppends(query, baseCurrency) ==
  [query EXCEPT !.currencies = Append(query.currencies, baseCurrency),
                !.baseCurrency = EUR]

buildEurQuery(query, baseCurrency) ==
  [query EXCEPT
     !.currencies = IF Includes(query.currencies, baseCurrency)
                    THEN query.currencies
                    ELSE Append(query.currencies, baseCurrency),
     !.baseCurrency = EUR]

effectiveBase(query) ==
  IF query.baseCurrency # Undefined THEN query.baseCurrency ELSE EUR

isNonEurBase(query) == effectiveBase(query) # EUR

fetchQueryOf(query) ==
  IF isNonEurBase(query) THEN buildEurQuery(query, effectiveBase(query)) ELSE query

\* ------------------------------------------------- query objects by reference
\* The objects and arrays a call works on: a query object holds a reference
\* to its currencies array, so two query objects can share one array.  The
\* caller's query is object 1 and its array is array 1.
QueryObject(arrayRef, query) ==
  [currencies |-> arrayRef, startDate |-> query.startDate, endDate |-> query.endDate,
   baseCurrency |-> query.baseCurrency, frequency |-> query.frequency]

NoHeap == [objects |-> <<>>, arrays |-> <<>>]

CallerHeap(query) ==
  [objects |-> <<QueryObject(1, query)>>, arrays |-> <<query.currencies>>]

\* the query an object stands for
Deref(heap, ref) ==
  LET o == heap.objects[ref]
  IN  Query(heap.arrays[o.currencies], o.startDate, o.endDate, o.baseCurrency,
            o.frequency)

\* resolveQuery on references: the object itself, or { ...query, baseCurrency }
resolveQueryRef(heap, ref, thisBase) ==
  IF heap.objects[ref].baseCurrency # Undefined THEN [heap |-> heap, ref |-> ref]
  ELSE [heap |-> [heap EXCEPT !.objects =
                     Append(@, [heap.objects[ref] EXCEPT !.baseCurrency = thisBase])],
        ref |-> Len(heap.objects) + 1]

\* Variant that pushes the base currency onto the array of the query.
buildEurQueryRefPushing(heap, ref, baseCurrency) ==
  LET o == heap.objects[ref]
      arr == heap.arrays[o.currencies]
  IN  [heap |-> [objects |-> Append(heap.objects, [o EXCEPT !.baseCurrency = EUR]),
                 arrays |-> IF Includes(arr, baseCurrency) THEN heap.arrays
                            ELSE [heap.arrays EXCEPT ![o.currencies] =
                                    Append(arr, baseCurrency)]],
       ref |-> Len(heap.objects) + 1]

\* buildEurQuery on references: query.currencies itself or the new array
\* [...query.currencies, baseCurrency], in the new object { ...query, ... }
buildEurQueryRef(heap, ref, baseCurrency) ==
  LET o == heap.objects[ref]
      arr == heap.arrays[o.currencies]
  IN  IF Includes(arr, baseCurrency)
      THEN [heap |-> [heap EXCEPT !.objects = Append(@, [o EXCEPT !.baseCurrency = EUR])],
            ref |-> Len(heap.objects) + 1]
      ELSE [heap |-> [objects |-> Append(heap.objects,
                                         [o EXCEPT !.currencies = Len(heap.arrays) + 1,
                                                   !.baseCurrency = EUR]),
                      arrays |-> Append(heap.arrays, Append(arr, baseCurrency))],
            ref |-> Len(heap.objects) + 1]

\* the fetch query of fetchAndParse, on references
fetchQueryRef(heap, ref) ==
  IF isNonEurBase(Deref(heap, ref))
  THEN buildEurQueryRef(heap, ref, effectiveBase(Deref(heap, ref)))
  ELSE [heap |-> heap, ref |-> ref]

\* ---------------------------------------------------- SDMX-JSON document
\* A dimension declaration; values holds the coded values in order.  A
\* coded value of a series dimension is [hasId, id]; the values of the
\* time dimension are the date labels themselves.
Dim(name, vals) == [id |-> name, hasValues |-> TRUE, values |-> vals]
Coded(c) == [hasId |-> TRUE, id |-> c]
NoIdValue == [hasId |-> FALSE, id |-> Undefined]

\* One entry of a dataSet's series mapping: the composite key split on ':'
\* and the observations mapping as <<time-index, first tuple element>>
\* entries in iteration order.
Series(k, os) == [key |-> k, observations |-> os]
DataSet(ss) == [hasSeries |-> TRUE, series |-> ss]

Document(sdims, odims, dsets) ==
  [hasDimensions |-> TRUE, hasSeriesDims |-> TRUE, hasObservationDims |-> TRUE,
   series |-> sdims, observation |-> odims,
   hasDataSets |-> TRUE, dataSets |-> dsets]

\* findIndex: 1-based position of the first dimension with this id, 0 if none
FindDim(dims, name) ==
  IF \E i \in 1..Len(dims) : dims[i].id = name
  THEN CHOOSE i \in 1..Len(dims) :
         dims[i].id = name /\ \A j \in 1..(i - 1) : dims[j].id # name
  ELSE 0

ParseFailure(why) == [ok |-> FALSE, reason |-> why, obs |-> <<>>]
ParseSuccess(os) == [ok |-> TRUE, reason |-> "", obs |-> os]

\* Observations of one series, entries from index i on.
RECURSIVE SeriesObservations(_, _, _, _, _)
\* Variant that emits an entry whose first tuple element is null.
SeriesObservationsKeepingNull(entries, i, cur, den, periods) ==
  IF i > Len(entries) THEN <<>>
  ELSE LET e == entries[i]
           rest == SeriesObservations(entries, i + 1, cur, den, periods)
       IN  IF e[1] < 0 \/ e[1] >= Len(periods) THEN rest
           ELSE <<[currency |-> cur, baseCurrency |-> den,
                   date |-> periods[e[1] + 1], rate |-> e[2]]>> \o rest

SeriesObservations(entries, i, cur, den, periods) ==
  IF i > Len(entries) THEN <<>>
  ELSE LET e == entries[i]
           rest == SeriesObservations(entries, i + 1, cur, den, periods)
       IN  IF e[1] < 0 \/ e[1] >= Len(periods) \/ e[2] = Null THEN rest
           ELSE <<[currency |-> cur, baseCurrency |-> den,
                   date |-> periods[e[1] + 1], rate |-> e[2]]>> \o rest

\* Observations of the series of one dataSet, from series i on.
RECURSIVE DataSetObservations(_, _, _, _, _, _, _)
\* Variant that reads the currency from the second and the denominator from
\* the third key segment, wherever the dimensions are declared.
DataSetObservationsFixedSegments(ss, i, cPos, cVals, dPos, dVals, periods) ==
  IF i > Len(ss) THEN <<>>
  ELSE LET k == ss[i].key
           rest == DataSetObservations(ss, i + 1, cPos, cVals, dPos, dVals, periods)
           usable ==
             /\ 3 <= Len(k)
             /\ k[2] >= 0 /\ k[2] < Len(cVals) /\ cVals[k[2] + 1].hasId
             /\ k[3] >= 0 /\ k[3] < Len(dVals) /\ dVals[k[3] + 1].hasId
       IN  IF ~usable THEN rest
           ELSE SeriesObservations(ss[i].observations, 1,
                                   cVals[k[2] + 1].id, dVals[k[3] + 1].id,
                                   periods) \o rest

DataSetObservations(ss, i, cPos, cVals, dPos, dVals, periods) ==
  IF i > Len(ss) THEN <<>>
  ELSE LET k == ss[i].key
           rest == DataSetObservations(ss, i + 1, cPos, cVals, dPos, dVals, periods)
           usable ==
             /\ cPos <= Len(k) /\ dPos <= Len(k)
             /\ k[cPos] >= 0 /\ k[cPos] < Len(cVals) /\ cVals[k[cPos] + 1].hasId
             /\ k[dPos] >= 0 /\ k[dPos] < Len(dVals) /\ dVals[k[dPos] + 1].hasId
       IN  IF ~usable THEN rest
           ELSE SeriesObservations(ss[i].observations, 1,
                                   cVals[k[cPos] + 1].id, dVals[k[dPos] + 1].id,
                                   periods) \o rest

RECURSIVE AllObservations(_, _, _, _, _, _, _)
\* Variant that puts the observations of a later dataSet first.
AllObservationsLaterFirst(dsets, i, cPos, cVals, dPos, dVals, periods) ==
  IF i > Len(dsets) THEN <<>>
  ELSE AllObservations(dsets, i + 1, cPos, cVals, dPos, dVals, periods)
       \o (IF dsets[i].hasSeries
           THEN DataSetObservations(dsets[i].series, 1, cPos, cVals, dPos, dVals, periods)
           ELSE <<>>)

\* Variant that stops at the first dataSet without a series property.
AllObservationsUntilSeriesLess(dsets, i, cPos, cVals, dPos, dVals, periods) ==
  IF i > Len(dsets) THEN <<>>
  ELSE IF ~dsets[i].hasSeries THEN <<>>
  ELSE DataSetObservations(dsets[i].series, 1, cPos, cVals, dPos, dVals, periods)
       \o AllObservations(dsets, i + 1, cPos, cVals, dPos, dVals, periods)

AllObservations(dsets, i, cPos, cVals, dPos, dVals, periods) ==
  IF i > Len(dsets) THEN <<>>
  ELSE (IF dsets[i].hasSeries
        THEN DataSetObservations(dsets[i].series, 1, cPos, cVals, dPos, dVals, periods)
        ELSE <<>>)
       \o AllObservations(dsets, i + 1, cPos, cVals, dPos, dVals, periods)

\* Variant that answers an absent or empty dataSets before it looks at the
\* dimension declarations.
parseJsonResponseDataFirst(doc) ==
  LET cPos == FindDim(doc.series, "CURRENCY")
      dPos == FindDim(doc.series, "CURRENCY_DENOM")
      tPos == FindDim(doc.observation, "TIME_PERIOD")
  IN  IF ~doc.hasDataSets \/ Len(doc.dataSets) = 0 THEN ParseSuccess(<<>>)
      ELSE IF ~doc.hasDimensions \/ ~doc.hasSeriesDims \/ ~doc.hasObservationDims
      THEN ParseFailure("structure.dimensions")
      ELSE IF cPos = 0 THEN ParseFailure("CURRENCY")
      ELSE IF dPos = 0 THEN ParseFailure("CURRENCY_DENOM")
      ELSE IF tPos = 0 THEN ParseFailure("TIME_PERIOD")
      ELSE IF ~doc.series[cPos].hasValues \/ ~doc.series[dPos].hasValues
              \/ ~doc.observation[tPos].hasValues
           THEN ParseFailure("missing dimension values")
      ELSE ParseSuccess(AllObservations(doc.dataSets, 1,
                                        cPos, doc.series[cPos].values,
                                        dPos, doc.series[dPos].values,
                                        doc.observation[tPos].values))

\* parseJsonResponse
parseJsonResponse(doc) ==
  LET cPos == FindDim(doc.series, "CURRENCY")
      dPos == FindDim(doc.series, "CURRENCY_DENOM")
      tPos == FindDim(doc.observation, "TIME_PERIOD")
  IN  IF ~doc.hasDimensions \/ ~doc.hasSeriesDims \/ ~doc.hasObservationDims
      THEN ParseFailure("structure.dimensions")
      ELSE IF cPos = 0 THEN ParseFailure("CURRENCY")
      ELSE IF dPos = 0 THEN ParseFailure("CURRENCY_DENOM")
      ELSE IF tPos = 0 THEN ParseFailure("TIME_PERIOD")
      ELSE IF ~doc.series[cPos].hasValues \/ ~doc.series[dPos].hasValues
              \/ ~doc.observation[tPos].hasValues
           THEN ParseFailure("missing dimension values")
      ELSE IF ~doc.hasDataSets \/ Len(doc.dataSets) = 0 THEN ParseSuccess(<<>>)
      ELSE ParseSuccess(AllObservations(doc.dataSets, 1,
                                        cPos, doc.series[cPos].values,
                                        dPos, doc.series[dPos].values,
                                        doc.observation[tPos].values))

\* -------------------------------------------------------- fetched bodies
\* The text returned by the fetcher: ws whitespace characters around a
\* payload that is nothing, text that is not JSON, or a JSON document.
NoDocument == [hasDimensions |-> FALSE, hasSeriesDims |-> FALSE,
               hasObservationDims |-> FALSE, series |-> <<>>, observation |-> <<>>,
               hasDataSets |-> FALSE, dataSets |-> <<>>]

Text(w, p, d) == [kind |-> "text", ws |-> w, payload |-> p, doc |-> d]
Rejected(err) == [kind |-> err, ws |-> 0, payload |-> "none", doc |-> NoDocument]

PayloadLength(raw) == IF raw.payload = "none" THEN 0 ELSE 1

\* raw.length and raw.trim().length
RawLength(raw) == raw.ws + PayloadLength(raw)
TrimmedLength(raw) == PayloadLength(raw)

\* Variant that tests the length without trimming.
IsEmptyBody(raw) == RawLength(raw) = 0

\* !raw || raw.trim().length === 0
IsBlankBody(raw) == RawLength(raw) = 0 \/ TrimmedLength(raw) = 0

\* parseSdmxJson: JSON.parse, which ignores surrounding whitespace
parseSdmxJson(raw) ==
  IF raw.payload = "json" THEN [ok |-> TRUE, doc |-> raw.doc]
  ELSE [ok |-> FALSE, doc |-> NoDocument]

\* ---------------------------------------------------- cross-rate adjuster
Observation(c, b, d, r) == [currency |-> c, baseCurrency |-> b, date |-> d, rate |-> r]

\* first loop: baseRateByDate after the observations up to index i
RECURSIVE BaseRateByDate(_, _, _)
BaseRateByDate(obs, i, baseCurrency) ==
  IF i = 0 THEN <<>>
  ELSE LET m == BaseRateByDate(obs, i - 1, baseCurrency)
       IN  IF obs[i].currency = baseCurrency
           THEN MapSet(m, obs[i].date, obs[i].rate)
           ELSE m

\* second loop: the cross rates pushed for the observations from index i on
RECURSIVE CrossRates(_, _, _, _)
\* Variant that divides by the base rate entered last, whatever its date.
CrossRatesAnyDate(obs, i, baseRateByDate, baseCurrency) ==
  IF i > Len(obs) THEN <<>>
  ELSE LET o == obs[i]
           rest == CrossRates(obs, i + 1, baseRateByDate, baseCurrency)
           last == baseRateByDate[Len(baseRateByDate)][2]
       IN  IF o.currency = baseCurrency THEN rest
           ELSE IF Len(baseRateByDate) = 0 THEN rest
           ELSE IF last = Zero THEN rest
           ELSE <<Observation(o.currency, baseCurrency, o.date, RatDiv(o.rate, last))>>
                \o rest

CrossRates(obs, i, baseRateByDate, baseCurrency) ==
  IF i > Len(obs) THEN <<>>
  ELSE LET o == obs[i]
           rest == CrossRates(obs, i + 1, baseRateByDate, baseCurrency)
       IN  IF o.currency = baseCurrency THEN rest
           ELSE IF ~MapHas(baseRateByDate, o.date) THEN rest
           ELSE IF MapGet(baseRateByDate, o.date) = Zero THEN rest
           ELSE <<Observation(o.currency, baseCurrency, o.date,
                              RatDiv(o.rate, MapGet(baseRateByDate, o.date)))>>
                \o rest

\* third loop: EUR synthesized from the entries of baseRateByDate from i on
RECURSIVE SynthesizedEur(_, _, _)
\* Variant that reports the base rate itself instead of its inverse.
SynthesizedEurNotInverted(baseRateByDate, i, baseCurrency) ==
  IF i > Len(baseRateByDate) THEN <<>>
  ELSE LET e == baseRateByDate[i]
           rest == SynthesizedEur(baseRateByDate, i + 1, baseCurrency)
       IN  IF e[2] = Zero THEN rest
           ELSE <<Observation(EUR, baseCurrency, e[1], e[2])>> \o rest

SynthesizedEur(baseRateByDate, i, baseCurrency) ==
  IF i > Len(baseRateByDate) THEN <<>>
  ELSE LET e == baseRateByDate[i]
           rest == SynthesizedEur(baseRateByDate, i + 1, baseCurrency)
       IN  IF e[2] = Zero THEN rest
           ELSE <<Observation(EUR, baseCurrency, e[1], RatDiv(One, e[2]))>> \o rest

\* Variant that synthesizes EUR whether or not it was requested.
adjustForBaseCurrencyAlwaysEur(obs, requestedCurrencies, baseCurrency) ==
  LET baseRateByDate == BaseRateByDate(obs, Len(obs), baseCurrency)
  IN  CrossRates(obs, 1, baseRateByDate, baseCurrency)
      \o SynthesizedEur(baseRateByDate, 1, baseCurrency)

adjustForBaseCurrency(obs, requestedCurrencies, baseCurrency) ==
  LET baseRateByDate == BaseRateByDate(obs, Len(obs), baseCurrency)
      wantsEur == Includes(requestedCurrencies, EUR)
  IN  CrossRates(obs, 1, baseRateByDate, baseCurrency)
      \o (IF wantsEur THEN SynthesizedEur(baseRateByDate, 1, baseCurrency) ELSE <<>>)

\* ------------------------------------------------------ errors, outcomes
Error(n, cs, sd, ed) == [name |-> n, currencies |-> cs, startDate |-> sd, endDate |-> ed]
PlainError(n) == Error(n, <<>>, NoDate, NoDate)
NoError == PlainError("none")
EcbNoDataError(cs, sd, ed) == Error("NoDataError", cs, sd, ed)

\* Variant that reports the currency list of the query that was fetched.
noDataErrorOfFetchQuery(query) ==
  EcbNoDataError(fetchQueryOf(query).currencies, query.startDate, query.endDate)

\* new EcbNoDataError(query.currencies, query.startDate, query.endDate)
noDataError(query) ==
  EcbNoDataError(query.currencies, query.startDate, query.endDate)

\* Variant that returns the decoded observations without adjusting them.
fetchAndParseUnadjusted(query, raw) ==
  LET json == parseSdmxJson(raw)
      parsed == parseJsonResponse(json.doc)
      noData == noDataError(query)
  IN  IF raw.kind # "text" THEN [error |-> PlainError(raw.kind), obs |-> <<>>]
      ELSE IF IsBlankBody(raw) THEN [error |-> noData, obs |-> <<>>]
      ELSE IF ~json.ok THEN [error |-> PlainError("ParseError"), obs |-> <<>>]
      ELSE IF ~parsed.ok THEN [error |-> PlainError("ParseError"), obs |-> <<>>]
      ELSE IF Len(parsed.obs) = 0 THEN [error |-> noData, obs |-> <<>>]
      ELSE [error |-> NoError, obs |-> parsed.obs]

\* The part of fetchAndParse that runs once fetcher.get has settled with
\* raw: the observations it returns or the error it throws.
fetchAndParse(query, raw) ==
  LET json == parseSdmxJson(raw)
      parsed == parseJsonResponse(json.doc)
      noData == noDataError(query)
  IN  IF raw.kind # "text" THEN [error |-> PlainError(raw.kind), obs |-> <<>>]
      ELSE IF IsBlankBody(raw) THEN [error |-> noData, obs |-> <<>>]
      ELSE IF ~json.ok THEN [error |-> PlainError("ParseError"), obs |-> <<>>]
      ELSE IF ~parsed.ok THEN [error |-> PlainError("ParseError"), obs |-> <<>>]
      ELSE IF Len(parsed.obs) = 0 THEN [error |-> noData, obs |-> <<>>]
      ELSE IF isNonEurBase(query)
           THEN [error |-> NoError,
                 obs |-> adjustForBaseCurrency(parsed.obs, query.currencies,
                                               effectiveBase(query))]
      ELSE [error |-> NoError, obs |-> parsed.obs]

\* --------------------------------------------------------- result shapes
\* One record covers the result types; the fields a type does not have keep
\* the values of NoResult (requestedDate = NoDate: property absent).
NoResult ==
  [base |-> Undefined, currency |-> Undefined, currencies |-> <<>>,
   rates |-> <<>>, byDate |-> <<>>, observations |-> <<>>,
   amount |-> Null, rate |-> Null, date |-> NoDate, requestedDate |-> NoDate]

RECURSIVE RatesByDate(_, _)
RatesByDate(obs, i) ==
  IF i = 0 THEN <<>>
  ELSE MapSet(RatesByDate(obs, i - 1), obs[i].date, obs[i].rate)

\* Variant that never looks at the observations.
DerivedBaseOfQuery(obs, query, thisBase) ==
  IF query.baseCurrency # Undefined THEN query.baseCurrency ELSE thisBase

\* observations[0]?.baseCurrency ?? query.baseCurrency ?? this.baseCurrency
DerivedBase(obs, query, thisBase) ==
  IF Len(obs) > 0 THEN obs[1].baseCurrency
  ELSE IF query.baseCurrency # Undefined THEN query.baseCurrency
  ELSE thisBase

\* the part of getSingleCurrencyRates after fetchAndParse
singleCurrencyResult(obs, resolvedQuery, thisBase) ==
  [NoResult EXCEPT !.base = DerivedBase(obs, resolvedQuery, thisBase),
                   !.currency = IF Len(resolvedQuery.currencies) > 0
                                 THEN resolvedQuery.currencies[1] ELSE Undefined,
                   !.rates = RatesByDate(obs, Len(obs))]

\* Array.prototype.sort on date strings, by insertion
RECURSIVE InsertSorted(_, _)
InsertSorted(sorted, x) ==
  IF Len(sorted) = 0 THEN <<x>>
  ELSE IF DateLess(x, sorted[Len(sorted)])
       THEN Append(InsertSorted(SubSeq(sorted, 1, Len(sorted) - 1), x),
                   sorted[Len(sorted)])
       ELSE Append(sorted, x)

RECURSIVE SortDates(_, _)
SortDates(keys, i) ==
  IF i = 0 THEN <<>> ELSE InsertSorted(SortDates(keys, i - 1), keys[i])

\* Variant that trusts the Map's insertion order instead of sorting.
filterToLastInsertedRate(result, requestedDate) ==
  IF Len(result.rates) = 0 THEN result
  ELSE LET mostRecentDate == result.rates[Len(result.rates)][1]
           rate == MapGet(result.rates, mostRecentDate)
       IN  [NoResult EXCEPT
              !.base = result.base,
              !.currency = result.currency,
              !.rates = <<<<mostRecentDate, rate>>>>,
              !.requestedDate = IF mostRecentDate # requestedDate
                                THEN requestedDate ELSE NoDate]

filterToMostRecentRate(result, requestedDate) ==
  IF Len(result.rates) = 0 THEN result
  ELSE LET sortedDates == SortDates(MapKeys(result.rates), Len(result.rates))
           mostRecentDate == sortedDates[Len(sortedDates)]
           rate == MapGet(result.rates, mostRecentDate)
       IN  [NoResult EXCEPT
              !.base = result.base,
              !.currency = result.currency,
              !.rates = <<<<mostRecentDate, rate>>>>,
              !.requestedDate = IF mostRecentDate # requestedDate
                                THEN requestedDate ELSE NoDate]

RECURSIVE GroupByDate(_, _)
\* Variant that starts a new currency map for every observation.
GroupByDateReplacing(obs, i) ==
  IF i = 0 THEN <<>>
  ELSE LET m == GroupByDate(obs, i - 1)
           o == obs[i]
       IN  MapSet(m, o.date, MapSet(<<>>, o.currency, o.rate))

GroupByDate(obs, i) ==
  IF i = 0 THEN <<>>
  ELSE LET m == GroupByDate(obs, i - 1)
           o == obs[i]
           dateRates == IF MapHas(m, o.date) THEN MapGet(m, o.date) ELSE <<>>
       IN  MapSet(m, o.date, MapSet(dateRates, o.currency, o.rate))

transformToMultiCurrencyResult(obs, query, thisBase) ==
  [NoResult EXCEPT !.base = DerivedBase(obs, query, thisBase),
                   !.currencies = query.currencies,
                   !.byDate = GroupByDate(obs, Len(obs))]

\* Variant that truncates instead of rounding.
TruncatedAmount(amount, rate) ==
  LET x == RatMul(RatMul(amount, rate), <<100, 1>>)
  IN  Rat(x[1] \div x[2], 100)

\* Math.round(amount * rate * 100) / 100
RoundedAmount(amount, rate) ==
  Rat(MathRound(RatMul(RatMul(amount, rate), <<100, 1>>)), 100)

\* The body of convert after getRate has returned result.  Destructuring
\* the first entry of an empty Map throws a TypeError.
conversion(amount, currency, result) ==
  IF Len(result.rates) = 0
  THEN [error |-> PlainError("TypeError"), value |-> NoResult]
  ELSE LET entry == result.rates[1]
       IN  [error |-> NoError,
            value |-> [NoResult EXCEPT
                         !.amount = RoundedAmount(amount, entry[2]),
                         !.rate = entry[2],
                         !.date = entry[1],
                         !.currency = currency,
                         !.requestedDate = result.requestedDate]]

\* ---------------------------------------------------------------- inputs
LowerUsd == <<"u", "s", "d">>
ShortCode == <<"U", "S">>
LongCode == <<"U", "S", "D", "D">>
SymbolCode == <<"U", "$", "D">>

D04 == Ymd(2025, 1, 4)
D14 == Ymd(2025, 1, 14)
D15 == Ymd(2025, 1, 15)
D16 == Ymd(2025, 1, 16)
YearStart == Ymd(2025, 1, 3)
LeapMarch == Ymd(2024, 3, 5)
Month13 == Ymd(2025, 13, 1)
Year1000 == Ymd(1000, 1, 5)

R103 == <<103, 100>>
R84 == <<21, 25>>
R2 == <<2, 1>>
Absent == <<-1, -1>>

ClientConfigs == {Undefined, USD}

RateCurrencies == {USD, GBP, EUR, LowerUsd, ShortCode, LongCode, SymbolCode, <<>>}
RateDates == {D15, YearStart, LeapMarch, Month13, Year1000, NotADate}

HistoryCurrencies == {USD, EUR, LowerUsd}
HistoryStarts == {D04, D15, NotADate}
HistoryEnds == {D15, D04, Month13}

QueryCurrencies ==
  {<<>>, <<USD>>, <<GBP>>, <<GBP, EUR>>, <<USD, GBP>>, <<USD, LowerUsd, GBP>>}
QueryStarts == {D14, NotADate}
QueryEnds == {NoDate, D14, D15, D04, NotADate}
QueryBases == {Undefined, EUR, USD, ShortCode}
Queries ==
  {Query(cs, sd, ed, bc, "") :
     cs \in QueryCurrencies, sd \in QueryStarts, ed \in QueryEnds, bc \in QueryBases}

Amounts == {<<100, 1>>, <<3333, 100>>, <<1, 200>>}
ConvertCurrencies == {USD, GBP, EUR, ShortCode}
ConvertDates == {D15, D16}

\* documents
SeriesDims ==
  <<Dim("FREQ", <<Coded(<<"D">>)>>),
    Dim("CURRENCY", <<Coded(USD), Coded(GBP)>>),
    Dim("CURRENCY_DENOM", <<Coded(EUR)>>)>>

TimeDim(labels) == <<Dim("TIME_PERIOD", labels)>>

PeriodLists == {<<D14, D15>>, <<D15, D16>>, <<D04, D15>>, <<D16, D15>>}

\* the observations mapping with value v0 at key "0" and v1 at key "1"
Entries(v0, v1) ==
  (IF v0 = Absent THEN <<>> ELSE <<<<0, v0>>>>)
  \o (IF v1 = Absent THEN <<>> ELSE <<<<1, v1>>>>)

UsdSeriesChoices ==
  {<<>>} \cup {<<Series(<<0, 0, 0>>, Entries(v0, v1))>> :
                 v0 \in {Absent, Null, Zero, R103}, v1 \in {Absent, R2}}

GbpSeriesChoices ==
  {<<>>} \cup {<<Series(<<0, 1, 0>>, Entries(v0, v1))>> :
                 v0 \in {Absent, R84}, v1 \in {Absent, R84}}

DataDocuments ==
  {Document(SeriesDims, TimeDim(labels), <<DataSet(u \o g)>>) :
     labels \in PeriodLists, u \in UsdSeriesChoices, g \in GbpSeriesChoices}

SampleDocument ==
  Document(SeriesDims, TimeDim(<<D15, D16>>),
           <<DataSet(<<Series(<<0, 0, 0>>, Entries(R103, R2))>>)>>)

DefectDocuments ==
  {[SampleDocument EXCEPT !.hasDimensions = FALSE],
   [SampleDocument EXCEPT !.hasSeriesDims = FALSE, !.series = <<>>],
   [SampleDocument EXCEPT !.hasObservationDims = FALSE, !.observation = <<>>],
   [SampleDocument EXCEPT !.series = <<SeriesDims[1], SeriesDims[3]>>],
   [SampleDocument EXCEPT !.series = <<SeriesDims[1], SeriesDims[2]>>],
   [SampleDocument EXCEPT !.observation = <<Dim("OTHER_DIM", <<>>)>>],
   [SampleDocument EXCEPT !.series[2].hasValues = FALSE],
   [SampleDocument EXCEPT !.series[3].hasValues = FALSE],
   [SampleDocument EXCEPT !.observation[1].hasValues = FALSE],
   [SampleDocument EXCEPT !.series = <<SeriesDims[1], SeriesDims[2]>>, !.dataSets = <<>>],
   [SampleDocument EXCEPT !.hasDimensions = FALSE, !.hasDataSets = FALSE, !.dataSets = <<>>]}

EmptyDocuments ==
  {[SampleDocument EXCEPT !.hasDataSets = FALSE, !.dataSets = <<>>],
   [SampleDocument EXCEPT !.dataSets = <<>>],
   [SampleDocument EXCEPT !.dataSets = <<[hasSeries |-> FALSE, series |-> <<>>]>>],
   [SampleDocument EXCEPT !.observation[1].values = <<>>]}

\* documents whose series are priced in a denominator other than EUR
ForeignDenomDocuments ==
  {[SampleDocument EXCEPT !.series[3].values = <<Coded(GBP)>>],
   [SampleDocument EXCEPT !.series[3].values = <<Coded(GBP)>>,
                          !.dataSets = <<DataSet(<<Series(<<0, 0, 0>>, Entries(R2, Absent)),
                                                   Series(<<0, 1, 0>>, Entries(R84, Absent))>>)>>]}

Bodies ==
  {Text(w, "none", NoDocument) : w \in 0..MaxWs}
  \cup {Text(w, "garbage", NoDocument) : w \in 0..MaxWs}
  \cup {Text(w, "json", d) : w \in 0..MaxWs, d \in DefectDocuments \cup EmptyDocuments}
  \cup {Text(0, "json", d) : d \in DataDocuments \cup ForeignDenomDocuments}

FetcherErrors == {"NetworkError", "ApiError"}

\* ------------------------------------------------------------ the client
NoQuery == Query(<<>>, NoDate, NoDate, Undefined, "")
NoCall == [op |-> "none", currency |-> Undefined, date |-> NoDate,
           amount |-> Null, query |-> NoQuery,
           heap |-> NoHeap, resolvedRef |-> 0, requestRef |-> 0]
NoBody == Rejected("none")

Pending == [status |-> "pending", error |-> NoError, value |-> NoResult]
Failed(e) == [status |-> "error", error |-> e, value |-> NoResult]
Returned(v) == [status |-> "ok", error |-> NoError, value |-> v]

\* --------------------------------------------------------- the fetcher
\* FetchHttpFetcher.get: one network operation raced against the fetcher's
\* own timer and the caller's cancellation signal.
DEFAULT_TIMEOUT_MS == 30000

NoSettlement ==
  [kind |-> "pending", why |-> "", ms |-> 0, url |-> "", cause |-> "",
   status |-> 0, body |-> ""]

\* the text of a successful response
FetchedText(text) == [NoSettlement EXCEPT !.kind = "text", !.body = text]

\* EcbApiError(statusCode, statusText/body)
EcbApiError(code, text) ==
  [NoSettlement EXCEPT !.kind = "ApiError", !.status = code, !.body = text]

\* EcbNetworkError for a timeout: the message holds the duration and the URL
TimeoutError(ms, url) ==
  [NoSettlement EXCEPT !.kind = "NetworkError", !.why = "timeout", !.ms = ms,
                       !.url = url]

\* EcbNetworkError for a cancellation by the caller's signal
AbortError(url) ==
  [NoSettlement EXCEPT !.kind = "NetworkError", !.why = "aborted", !.url = url]

\* EcbNetworkError wrapping the cause of a transport failure
TransportError(cause) ==
  [NoSettlement EXCEPT !.kind = "NetworkError", !.why = "transport", !.cause = cause]

\* timeoutMs of the constructor, 30000 when none is given
TimeoutOf(cfg) == IF cfg.hasTimeout THEN cfg.timeoutMs ELSE DEFAULT_TIMEOUT_MS

\* Variant in which a later event replaces the outcome of the call.
LastSettlement(current, new) == new

\* a call settles once: what happens after it has settled changes nothing
FirstSettlement(current, new) == IF current.kind = "pending" THEN new ELSE current

\* what get() does with a response: the text, or an ApiError carrying the
\* status and, when the body can be read, the body
ResponseOutcome(resp) ==
  IF resp.ok THEN FetchedText(resp.body)
  ELSE EcbApiError(resp.status, IF resp.readable THEN resp.body ELSE "")

NoFetch ==
  [phase |-> "none", url |-> "", timeoutMs |-> 0, now |-> 0,
   timer |-> "none", signal |-> "none", first |-> "none",
   result |-> NoSettlement]

\* The variable lab belongs to the specifications that apply the decoder
\* and the adjuster to inputs of their own; the client leaves it alone.
NoLab ==
  [stage |-> "unused", relation |-> "none", doc |-> NoDocument, variant |-> NoDocument,
   out |-> ParseSuccess(<<>>), outVariant |-> ParseSuccess(<<>>),
   single |-> <<>>, singleVariant |-> <<>>, multi |-> <<>>, multiVariant |-> <<>>,
   input |-> <<>>, requested |-> <<>>, base |-> Undefined,
   adjusted |-> <<>>, readjusted |-> <<>>,
   fetcher |-> NoFetch,
   dateStr |-> NoDate, days |-> 0, back |-> NoDate,
   calls |-> <<>>, events |-> <<>>]

Init ==
  /\ config \in ClientConfigs
  /\ clientBase = Constructor(config)
  /\ lab = NoLab
  /\ pc = "idle"
  /\ call = NoCall
  /\ resolved = NoQuery
  /\ request = NoQuery
  /\ fetchCount = 0
  /\ body = NoBody
  /\ observations = <<>>
  /\ outcome = Pending

\* Variant in which the handler fetches without validating.
SkipsValidation(r) == TRUE

\* validateQuery(resolved) returned, so the handler goes on to fetchAndParse
PassesValidation(r) == validateQuery(r)

\* A public operation up to its only await: resolveQuery, validateQuery and,
\* in fetchAndParse, the fetch query handed to fetcher.get.
Start(opName, query, cur, date, amt) ==
  /\ LET res == resolveQueryRef(CallerHeap(query), 1, clientBase)
         req == fetchQueryRef(res.heap, res.ref)
         passes == PassesValidation(resolveQuery(query, clientBase))
     IN  call' = [op |-> opName, currency |-> cur, date |-> date, amount |-> amt,
                  query |-> query,
                  heap |-> IF passes THEN req.heap ELSE res.heap,
                  resolvedRef |-> res.ref,
                  requestRef |-> IF passes THEN req.ref ELSE 0]
  /\ resolved' = resolveQuery(query, clientBase)
  /\ IF PassesValidation(resolved')
     THEN /\ pc' = "fetching"
          /\ request' = fetchQueryOf(resolved')
          /\ fetchCount' = 1
          /\ outcome' = Pending
     ELSE /\ pc' = "done"
          /\ request' = NoQuery
          /\ fetchCount' = 0
          /\ outcome' = Failed(PlainError("ValidationError"))
  /\ body' = NoBody
  /\ observations' = <<>>
  /\ UNCHANGED <<config, clientBase, lab>>

RateQuery(currency, date) ==
  Query(<<currency>>, subtractCalendarDays(date, DEFAULT_LOOKBACK_DAYS), date, Undefined, "")

GetRate(currency, date) ==
  /\ pc = "idle"
  /\ Start("getRate", RateQuery(currency, date), currency, date, Null)

GetRateHistory(currency, startDate, endDate) ==
  /\ pc = "idle"
  /\ Start("getRateHistory", Query(<<currency>>, startDate, endDate, Undefined, "D"),
           currency, NoDate, Null)

GetRates(query) ==
  /\ pc = "idle"
  /\ Start("getRates", query, Undefined, NoDate, Null)

GetObservations(query) ==
  /\ pc = "idle"
  /\ Start("getObservations", query, Undefined, NoDate, Null)

Convert(amount, currency, date) ==
  /\ pc = "idle"
  /\ Start("convert", RateQuery(currency, date), currency, date, amount)

\* What the operation does with the observations fetchAndParse returned.
Complete(c, r, obs, thisBase) ==
  LET single == singleCurrencyResult(obs, r, thisBase)
  IN  CASE c.op = "getObservations" -> Returned([NoResult EXCEPT !.observations = obs])
        [] c.op = "getRates" -> Returned(transformToMultiCurrencyResult(obs, r, thisBase))
        [] c.op = "getRateHistory" -> Returned(single)
        [] c.op = "getRate" -> Returned(filterToMostRecentRate(single, c.date))
        [] c.op = "convert" ->
             LET cv == conversion(c.amount, c.currency,
                                  filterToMostRecentRate(single, c.date))
             IN  IF cv.error # NoError THEN Failed(cv.error) ELSE Returned(cv.value)

\* Variant that calls the fetcher again after a rejection or a blank body.
RetriesAfterFailure(raw) == (raw.kind # "text" \/ IsBlankBody(raw)) /\ fetchCount < 2

\* fetchAndParse awaits fetcher.get once, outside any loop or catch: whatever
\* the fetch settles with, the fetcher is not called again
Retries(raw) == FALSE

\* fetcher.get settles with raw (a text, or a rejection) and the operation
\* runs to its end.
Settle(raw) ==
  /\ body' = raw
  /\ IF Retries(raw)
     THEN /\ fetchCount' = fetchCount + 1
          /\ pc' = "fetching"
          /\ UNCHANGED <<observations, outcome>>
     ELSE /\ LET fp == fetchAndParse(resolved, raw)
             IN  IF fp.error # NoError
                 THEN /\ observations' = <<>>
                      /\ outcome' = Failed(fp.error)
                 ELSE /\ observations' = fp.obs
                      /\ outcome' = Complete(call, resolved, fp.obs, clientBase)
          /\ pc' = "done"
          /\ UNCHANGED fetchCount
  /\ UNCHANGED <<config, clientBase, call, resolved, request, lab>>

FetchResolves(raw) ==
  /\ pc = "fetching"
  /\ Settle(raw)

FetchRejects(err) ==
  /\ pc = "fetching"
  /\ Settle(Rejected(err))

\* The caller takes the result; the client is ready for the next call.
Return ==
  /\ pc = "done"
  /\ pc' = "idle"
  /\ call' = NoCall
  /\ resolved' = NoQuery
  /\ request' = NoQuery
  /\ fetchCount' = 0
  /\ body' = NoBody
  /\ observations' = <<>>
  /\ outcome' = Pending
  /\ UNCHANGED <<config, clientBase, lab>>

Next ==
  \/ \E c \in RateCurrencies, d \in RateDates : GetRate(c, d)
  \/ \E c \in HistoryCurrencies, s \in HistoryStarts, e \in HistoryEnds :
       GetRateHistory(c, s, e)
  \/ \E q \in Queries : GetRates(q)
  \/ \E q \in Queries : GetObservations(q)
  \/ \E a \in Amounts, c \in ConvertCurrencies, d \in ConvertDates : Convert(a, c, d)
  \/ \E raw \in Bodies : FetchResolves(raw)
  \/ \E err \in FetcherErrors : FetchRejects(err)
  \/ Return

Spec == Init /\ [][Next]_vars

\* ====================================================== the decoder alone
\* parseJsonResponse applied to documents of every shape, and the two
\* groupings of the client applied to what it returns.  The client stays
\* idle; lab holds the document, a reordering of it, and the results.
MaxSeries == 2

LabSeriesDims ==
  <<Dim("FREQ", <<Coded(<<"D">>)>>),
    Dim("CURRENCY", <<Coded(USD), Coded(GBP), NoIdValue>>),
    Dim("CURRENCY_DENOM", <<Coded(EUR), NoIdValue>>)>>

LabSkeleton == Document(LabSeriesDims, TimeDim(<<D14, D15>>), <<>>)

ValidSkeletons ==
  {LabSkeleton, [LabSkeleton EXCEPT !.observation = TimeDim(<<D15>>)]}

DefectSkeletons ==
  {[LabSkeleton EXCEPT !.hasDimensions = FALSE, !.hasSeriesDims = FALSE,
                       !.hasObservationDims = FALSE, !.series = <<>>,
                       !.observation = <<>>],
   [LabSkeleton EXCEPT !.hasSeriesDims = FALSE, !.series = <<>>],
   [LabSkeleton EXCEPT !.hasObservationDims = FALSE, !.observation = <<>>],
   [LabSkeleton EXCEPT !.series = <<LabSeriesDims[1], LabSeriesDims[3]>>],
   [LabSkeleton EXCEPT !.series = <<LabSeriesDims[1], LabSeriesDims[2]>>],
   [LabSkeleton EXCEPT !.series = <<>>, !.observation = <<>>],
   [LabSkeleton EXCEPT !.observation = <<Dim("OTHER_DIM", <<>>)>>],
   [LabSkeleton EXCEPT !.series[2].hasValues = FALSE, !.series[2].values = <<>>],
   [LabSkeleton EXCEPT !.series[3].hasValues = FALSE, !.series[3].values = <<>>],
   [LabSkeleton EXCEPT !.observation[1].hasValues = FALSE,
                       !.observation[1].values = <<>>],
   [LabSkeleton EXCEPT !.series = <<LabSeriesDims[1], LabSeriesDims[2]>>,
                       !.observation[1].hasValues = FALSE,
                       !.observation[1].values = <<>>]}

\* series: well formed, sparse, keyed too short, keyed to a value without
\* id, keyed beyond the values list, with a time-index beyond TIME_PERIOD
LabSeries ==
  {Series(<<0, 0, 0>>, <<<<0, R103>>, <<1, R2>>>>),
   Series(<<0, 0, 0>>, <<<<0, R2>>>>),
   Series(<<0, 1, 0>>, <<<<0, R84>>, <<1, Null>>>>),
   Series(<<0>>, <<<<0, R103>>>>),
   Series(<<0, 2, 0>>, <<<<0, R103>>>>),
   Series(<<0, 0, 1>>, <<<<1, R103>>>>),
   Series(<<0, 7, 0>>, <<<<0, R2>>>>),
   Series(<<0, 1, 0>>, <<<<99, R2>>, <<0, Zero>>>>)}

SeriesLists == UNION {[1..n -> LabSeries] : n \in 0..MaxSeries}

SeriesLess == [hasSeries |-> FALSE, series |-> <<>>]

LabDataSets ==
  {<<>>, <<SeriesLess>>}
  \cup {<<DataSet(ss)>> : ss \in SeriesLists}
  \cup {<<SeriesLess, DataSet(ss)>> : ss \in [1..1 -> LabSeries]}
  \cup {<<DataSet(<<a>>), DataSet(<<b>>)>> : a \in LabSeries, b \in LabSeries}

LabDocuments ==
  {[k EXCEPT !.dataSets = ds] : k \in ValidSkeletons \cup DefectSkeletons,
                                ds \in LabDataSets}
  \cup {[k EXCEPT !.hasDataSets = FALSE] : k \in ValidSkeletons \cup DefectSkeletons}

\* every reordering of a sequence
Reorderings(seq) ==
  {[i \in 1..Len(seq) |-> seq[p[i]]] : p \in Permutations(1..Len(seq))}

\* the documents that differ from doc in the order of the dataSets and of
\* the series inside each dataSet
Reordered(doc) ==
  LET inner(ds) == {[ds EXCEPT !.series = ss] : ss \in Reorderings(ds.series)}
      each(dsets) ==
        {f \in [1..Len(dsets) -> UNION {inner(dsets[i]) : i \in 1..Len(dsets)}] :
           \A i \in 1..Len(dsets) : f[i] \in inner(dsets[i])}
  IN  {[doc EXCEPT !.dataSets = ds] :
         ds \in UNION {each(o) : o \in Reorderings(doc.dataSets)}}

ClientIdle ==
  /\ config = Undefined
  /\ clientBase = Constructor(config)
  /\ pc = "idle"
  /\ call = NoCall
  /\ resolved = NoQuery
  /\ request = NoQuery
  /\ fetchCount = 0
  /\ body = NoBody
  /\ observations = <<>>
  /\ outcome = Pending

clientVars ==
  <<config, clientBase, pc, call, resolved, request, fetchCount, body,
    observations, outcome>>

\* the documents that declare the series dimensions of doc in another order,
\* every key having its segments moved in the same way; a key with fewer
\* segments than there are dimensions has no such counterpart
Redeclared(doc) ==
  LET n == Len(doc.series)
      moved(p, seq) == [i \in 1..n |-> seq[p[i]]]
      complete ==
        \A d \in 1..Len(doc.dataSets) : \A j \in 1..Len(doc.dataSets[d].series) :
           Len(doc.dataSets[d].series[j].key) = n
  IN  IF ~complete THEN {}
      ELSE {[doc EXCEPT
               !.series = moved(p, doc.series),
               !.dataSets =
                  [d \in 1..Len(doc.dataSets) |->
                     [doc.dataSets[d] EXCEPT
                        !.series =
                           [j \in 1..Len(doc.dataSets[d].series) |->
                              [doc.dataSets[d].series[j] EXCEPT
                                 !.key = moved(p, doc.dataSets[d].series[j].key)]]]]] :
              p \in Permutations(1..n)}

InitDecoder ==
  /\ ClientIdle
  /\ \E d \in LabDocuments :
        \/ \E v \in Reordered(d) :
             lab = [NoLab EXCEPT !.stage = "document", !.relation = "order",
                                 !.doc = d, !.variant = v]
        \/ \E v \in Redeclared(d) :
             lab = [NoLab EXCEPT !.stage = "document", !.relation = "dimensions",
                                 !.doc = d, !.variant = v]

\* parseJsonResponse on the document and on its reordering
Decode ==
  /\ lab.stage = "document"
  /\ lab' = [lab EXCEPT !.stage = "decoded",
                        !.out = parseJsonResponse(lab.doc),
                        !.outVariant = parseJsonResponse(lab.variant)]
  /\ UNCHANGED clientVars

\* the loops of getSingleCurrencyRates and transformToMultiCurrencyResult
Group ==
  /\ lab.stage = "decoded"
  /\ lab.out.ok /\ lab.outVariant.ok
  /\ lab' = [lab EXCEPT !.stage = "grouped",
                        !.single = RatesByDate(lab.out.obs, Len(lab.out.obs)),
                        !.singleVariant =
                           RatesByDate(lab.outVariant.obs, Len(lab.outVariant.obs)),
                        !.multi = GroupByDate(lab.out.obs, Len(lab.out.obs)),
                        !.multiVariant =
                           GroupByDate(lab.outVariant.obs, Len(lab.outVariant.obs))]
  /\ UNCHANGED clientVars

NextDecoder ==
  \/ Decode
  \/ Group

SpecDecoder == InitDecoder /\ [][NextDecoder]_vars

\* ===================================================== the adjuster alone
\* adjustForBaseCurrency applied to EUR-based observations, then applied
\* again to its own output with EUR as the base.
MaxObs == 3

LabObservations ==
  {Observation(c, EUR, d, r) : c \in {USD, GBP}, d \in {D14, D15},
                               r \in {Zero, R103, R2}}

AdjusterInputs == UNION {[1..n -> LabObservations] : n \in 0..MaxObs}

AdjusterRequests == {<<GBP>>, <<GBP, EUR>>}

InitAdjuster ==
  /\ ClientIdle
  /\ \E o \in AdjusterInputs : \E r \in AdjusterRequests :
        lab = [NoLab EXCEPT !.stage = "input", !.input = o, !.requested = r,
                            !.base = USD]

Adjust ==
  /\ lab.stage = "input"
  /\ lab' = [lab EXCEPT !.stage = "adjusted",
                        !.adjusted =
                           adjustForBaseCurrency(lab.input, lab.requested, lab.base)]
  /\ UNCHANGED clientVars

\* the output taken as the observations of base X, X's synthesized EUR
\* rate being the native series
Readjust ==
  /\ lab.stage = "adjusted"
  /\ lab' = [lab EXCEPT !.stage = "readjusted",
                        !.readjusted =
                           adjustForBaseCurrency(lab.adjusted, lab.requested, EUR)]
  /\ UNCHANGED clientVars

NextAdjuster ==
  \/ Adjust
  \/ Readjust

SpecAdjuster == InitAdjuster /\ [][NextAdjuster]_vars

\* ================================================ subtractCalendarDays alone
MaxDays == 11

\* valid dates around month, year, leap-year and century boundaries, and in
\* years of fewer than four significant digits
LabDates ==
  {Ymd(2025, 1, 18), Ymd(2025, 3, 2), Ymd(2025, 1, 3), Ymd(2024, 3, 1),
   Ymd(2025, 3, 1), Ymd(2025, 1, 15), Ymd(2000, 3, 1), Ymd(1900, 3, 1),
   Ymd(2024, 2, 29), Ymd(2024, 12, 31), Ymd(9999, 12, 31), Ymd(1000, 1, 5),
   Ymd(999, 1, 15), Ymd(100, 6, 30)}

InitDates ==
  /\ ClientIdle
  /\ \E d \in LabDates : \E n \in 0..MaxDays :
        lab = [NoLab EXCEPT !.stage = "dates", !.dateStr = d, !.days = n]

Subtract ==
  /\ lab.stage = "dates"
  /\ lab' = [lab EXCEPT !.stage = "subtracted",
                        !.back = subtractCalendarDays(lab.dateStr, lab.days)]
  /\ UNCHANGED clientVars

NextDates ==
  \/ Subtract

SpecDates == InitDates /\ [][NextDates]_vars

\* ====================================================== the fetcher alone
FetcherConfigs ==
  {[hasTimeout |-> FALSE, timeoutMs |-> 0],
   [hasTimeout |-> TRUE, timeoutMs |-> 3000],
   [hasTimeout |-> TRUE, timeoutMs |-> 5000]}

Urls == {"https://api.ecb.europa.eu/data", "https://api.ecb.europa.eu/slow"}

\* the instants at which something is observed to happen, in ms after get()
Instants == {1000, 3000, 5000, 30000, 31000}

Responses ==
  {[ok |-> TRUE, status |-> 200, body |-> "{}", readable |-> TRUE],
   [ok |-> FALSE, status |-> 404, body |-> "resource missing", readable |-> TRUE],
   [ok |-> FALSE, status |-> 503, body |-> "maintenance", readable |-> TRUE],
   [ok |-> FALSE, status |-> 500, body |-> "stream broken", readable |-> FALSE]}

Causes == {"Failed to fetch", "raw string error"}

InitFetcher ==
  /\ ClientIdle
  /\ lab = [NoLab EXCEPT !.stage = "fetcher"]

\* get(url, signal?): the request is sent and the timer armed
Get(cfg, url, withSignal) ==
  /\ lab.stage = "fetcher"
  /\ lab.fetcher.phase = "none"
  /\ lab' = [lab EXCEPT !.fetcher =
               [NoFetch EXCEPT !.phase = "inflight", !.url = url,
                               !.timeoutMs = TimeoutOf(cfg), !.timer = "armed",
                               !.signal = IF withSignal THEN "armed" ELSE "none"]]
  /\ UNCHANGED clientVars

\* time passes
Tick(t) ==
  /\ lab.fetcher.phase # "none"
  /\ t > lab.fetcher.now
  /\ lab' = [lab EXCEPT !.fetcher.now = t]
  /\ UNCHANGED clientVars

\* one of the racing events takes place: the call settles with it if it has
\* not settled yet, and the timer is cleared
Event(name, settlement) ==
  /\ lab' = [lab EXCEPT
               !.fetcher.phase = "settled",
               !.fetcher.first = IF lab.fetcher.first = "none" THEN name
                                 ELSE lab.fetcher.first,
               !.fetcher.timer = IF name = "timer" THEN "fired" ELSE
                                 IF lab.fetcher.timer = "armed" THEN "cleared"
                                 ELSE lab.fetcher.timer,
               !.fetcher.signal = IF name = "abort" THEN "aborted"
                                  ELSE lab.fetcher.signal,
               !.fetcher.result = FirstSettlement(lab.fetcher.result, settlement)]
  /\ UNCHANGED clientVars

\* the fetcher's timer runs out
TimerFires ==
  /\ lab.fetcher.phase = "inflight"
  /\ lab.fetcher.timer = "armed"
  /\ lab.fetcher.now >= lab.fetcher.timeoutMs
  /\ Event("timer", TimeoutError(lab.fetcher.timeoutMs, lab.fetcher.url))

\* the caller aborts its signal, during the call or after it
ExternalAbort ==
  /\ lab.fetcher.phase \in {"inflight", "settled"}
  /\ lab.fetcher.signal = "armed"
  /\ Event("abort", AbortError(lab.fetcher.url))

\* the network operation completes with a response
NetworkResponds(resp) ==
  /\ lab.fetcher.phase = "inflight"
  /\ Event("response", ResponseOutcome(resp))

\* the network operation fails
NetworkFails(cause) ==
  /\ lab.fetcher.phase = "inflight"
  /\ Event("failure", TransportError(cause))

NextFetcher ==
  \/ \E cfg \in FetcherConfigs, url \in Urls, withSignal \in BOOLEAN :
       Get(cfg, url, withSignal)
  \/ \E t \in Instants : Tick(t)
  \/ TimerFires
  \/ ExternalAbort
  \/ \E resp \in Responses : NetworkResponds(resp)
  \/ \E cause \in Causes : NetworkFails(cause)

SpecFetcher == InitFetcher /\ [][NextFetcher]_vars

\* ===================================== two calls in flight on one client
\* A public operation runs synchronously up to its await of fetcher.get and
\* again from the settlement of that promise to its end; between the two,
\* other calls on the same EcbClient may run.
Callers == 1..2

ConcurrentCalls ==
  {[NoCall EXCEPT !.op = "getRate", !.currency = USD, !.date = D15,
                  !.query = RateQuery(USD, D15)],
   [NoCall EXCEPT !.op = "getRate", !.currency = GBP, !.date = D15,
                  !.query = RateQuery(GBP, D15)],
   [NoCall EXCEPT !.op = "convert", !.currency = USD, !.date = D15,
                  !.amount = Rat(100, 1), !.query = RateQuery(USD, D15)],
   [NoCall EXCEPT !.op = "getRateHistory", !.currency = USD,
                  !.query = Query(<<USD>>, D14, D16, Undefined, "D")],
   [NoCall EXCEPT !.op = "getRates",
                  !.query = Query(<<USD, EUR>>, D14, D16, GBP, "")],
   [NoCall EXCEPT !.op = "getRates",
                  !.query = Query(<<USD, GBP>>, D14, NoDate, Undefined, "")],
   [NoCall EXCEPT !.op = "getObservations",
                  !.query = Query(<<GBP>>, D14, D16, Undefined, "")],
   [NoCall EXCEPT !.op = "getRates",
                  !.query = Query(<<>>, D14, D16, Undefined, "")]}

ConcurrentBodies ==
  {Text(0, "json", Document(SeriesDims, TimeDim(<<D15, D16>>),
                            <<DataSet(<<Series(<<0, 0, 0>>, Entries(R103, R2)),
                                        Series(<<0, 1, 0>>, Entries(R84, R84))>>)>>)),
   Text(0, "json", SampleDocument),
   Text(1, "none", NoDocument),
   Text(0, "garbage", NoDocument),
   Rejected("NetworkError")}

NoActivation ==
  [pc |-> "idle", call |-> NoCall, resolved |-> NoQuery, body |-> NoBody,
   outcome |-> Pending]

\* Variant in which resolving a query stores its base currency in the client.
baseCurrencyOfLastQuery(thisBase, resolvedQuery) == resolvedQuery.baseCurrency

\* baseUrl, baseCurrency and fetcher are readonly fields assigned in the
\* constructor only: a call leaves this.baseCurrency as it found it
baseCurrencyAfterCall(thisBase, resolvedQuery) == thisBase

\* a call from its invocation up to its await of fetcher.get
Started(c, thisBase) ==
  LET r == resolveQuery(c.query, thisBase)
  IN  [pc |-> IF PassesValidation(r) THEN "fetching" ELSE "done",
       call |-> c,
       resolved |-> r,
       body |-> NoBody,
       outcome |-> IF PassesValidation(r)
                   THEN Pending
                   ELSE Failed(PlainError("ValidationError"))]

\* a call from the settlement of its fetch to its end
Settled(a, raw, thisBase) ==
  IF Retries(raw)
  THEN [a EXCEPT !.body = raw]
  ELSE LET fp == fetchAndParse(a.resolved, raw)
       IN  [a EXCEPT !.pc = "done",
                     !.body = raw,
                     !.outcome = IF fp.error # NoError
                                 THEN Failed(fp.error)
                                 ELSE Complete(a.call, a.resolved, fp.obs, thisBase)]

InitConcurrent ==
  /\ config \in ClientConfigs
  /\ clientBase = Constructor(config)
  /\ pc = "idle"
  /\ call = NoCall
  /\ resolved = NoQuery
  /\ request = NoQuery
  /\ fetchCount = 0
  /\ body = NoBody
  /\ observations = <<>>
  /\ outcome = Pending
  /\ lab = [NoLab EXCEPT !.stage = "concurrent",
                         !.calls = [i \in Callers |-> NoActivation]]

Invoke(i, c) ==
  /\ lab.stage = "concurrent"
  /\ lab.calls[i].pc = "idle"
  /\ lab' = [lab EXCEPT !.calls[i] = Started(c, clientBase),
                        !.events = Append(@, <<"invoke", i>>)]
  /\ clientBase' = baseCurrencyAfterCall(clientBase, Started(c, clientBase).resolved)
  /\ UNCHANGED <<config, pc, call, resolved, request, fetchCount, body,
                 observations, outcome>>

FetchSettles(i, raw) ==
  /\ lab.stage = "concurrent"
  /\ lab.calls[i].pc = "fetching"
  /\ lab' = [lab EXCEPT !.calls[i] = Settled(@, raw, clientBase),
                        !.events = Append(@, <<"settle", i>>)]
  /\ UNCHANGED clientVars

NextConcurrent ==
  \/ \E i \in Callers, c \in ConcurrentCalls : Invoke(i, c)
  \/ \E i \in Callers, raw \in ConcurrentBodies : FetchSettles(i, raw)

SpecConcurrent == InitConcurrent /\ [][NextConcurrent]_vars

\* ============================================================ properties
Done == pc = "done"
Succeeded == Done /\ outcome.status = "ok"
FailedWith(n) == Done /\ outcome.status = "error" /\ outcome.error.name = n

ObservationDates == {observations[i].date : i \in 1..Len(observations)}

\* the greatest date among the observations the pipeline produced
LatestDate == CHOOSE d \in ObservationDates : \A e \in ObservationDates : DateLeq(e, d)

\* the date a successful getRate or convert reports
ReportedDate ==
  IF call.op = "convert" THEN outcome.value.date
  ELSE IF Len(outcome.value.rates) = 0 THEN NoDate
  ELSE outcome.value.rates[1][1]

\* the observations decoded from the body that was fetched
Decoded == parseJsonResponse(body.doc).obs

WellFormedBody ==
  body.kind = "text" /\ body.payload = "json" /\ parseJsonResponse(body.doc).ok

C2_DateWithinLookback ==
  (Succeeded /\ call.op \in {"getRate", "convert"} /\ Len(observations) > 0) =>
     /\ DateLeq(ReportedDate, call.date)
     /\ DateLeq(subtractCalendarDays(call.date, DEFAULT_LOOKBACK_DAYS), ReportedDate)

\* C3: when the response yields an observation of the requested currency on
\* the requested date D, getRate returns that observation's rate under key
\* D and convert reports date D with that rate, whatever else the response
\* contains.
C3_ExactDateRateReturned ==
  (Done /\ call.op \in {"getRate", "convert"}) =>
     \A i \in 1..Len(observations) :
        (observations[i].currency = call.currency /\ observations[i].date = call.date) =>
           /\ outcome.status = "ok"
           /\ ReportedDate = call.date
           /\ IF call.op = "convert" THEN outcome.value.rate = observations[i].rate
              ELSE outcome.value.rates = <<<<call.date, observations[i].rate>>>>

\* C4: convert returns the date and the unrounded rate of the most recent
\* observation, and an amount that is a whole number of cents n with
\* n - 1/2 <= amount * rate * 100 < n + 1/2 (round half up); 100 at 1.03
\* gives 103 and 33.33 at 1.03 gives 34.33.
C4_ConvertRoundsHalfUp ==
  (Succeeded /\ call.op = "convert") =>
     LET v == outcome.value
         last == CHOOSE i \in 1..Len(observations) :
                   /\ observations[i].date = LatestDate
                   /\ \A j \in (i + 1)..Len(observations) : observations[j].date # LatestDate
         x == RatMul(RatMul(call.amount, v.rate), <<100, 1>>)
         cents == RatMul(v.amount, <<100, 1>>)
     IN  /\ v.date = LatestDate
         /\ v.rate = observations[last].rate
         /\ v.currency = call.currency
         /\ cents[2] = 1
         /\ (2 * cents[1] - 1) * x[2] <= 2 * x[1]
         /\ 2 * x[1] < (2 * cents[1] + 1) * x[2]
         /\ (call.amount = <<100, 1>> /\ v.rate = R103) => v.amount = <<103, 1>>
         /\ (call.amount = <<3333, 100>> /\ v.rate = R103) => v.amount = <<3433, 100>>

C4_Witness ==
  /\ Succeeded /\ call.op = "convert"
  /\ call.amount = <<3333, 100>>
  /\ outcome.value.rate = R103
  /\ outcome.value.amount = <<3433, 100>>

\* C5: when a well-formed response leaves the pipeline with zero rates, the
\* operation fails with NoDataError, whatever the base currency.
C5_NoRatesIsNoDataError ==
  (Done /\ fetchCount = 1 /\ WellFormedBody /\ Len(observations) = 0) =>
     FailedWith("NoDataError")

\* a declaration the decoder requires is missing from the document
StructureViolated(doc) ==
  \/ ~doc.hasDimensions \/ ~doc.hasSeriesDims \/ ~doc.hasObservationDims
  \/ ~\E i \in 1..Len(doc.series) : doc.series[i].id = "CURRENCY"
  \/ ~\E i \in 1..Len(doc.series) : doc.series[i].id = "CURRENCY_DENOM"
  \/ ~\E i \in 1..Len(doc.observation) : doc.observation[i].id = "TIME_PERIOD"
  \/ \E i \in 1..Len(doc.series) :
        doc.series[i].id \in {"CURRENCY", "CURRENCY_DENOM"} /\ ~doc.series[i].hasValues
  \/ \E i \in 1..Len(doc.observation) :
        doc.observation[i].id = "TIME_PERIOD" /\ ~doc.observation[i].hasValues

\* C6: an empty or whitespace-only body yields NoDataError; a non-blank body
\* that is not JSON, or is JSON lacking a required dimension or values list,
\* yields ParseError.
C6_BlankBeforeDecoding ==
  (Done /\ body.kind = "text") =>
     /\ body.payload = "none" => FailedWith("NoDataError")
     /\ body.payload = "garbage" => FailedWith("ParseError")
     /\ (body.payload = "json" /\ StructureViolated(body.doc)) => FailedWith("ParseError")

C6_Witness ==
  /\ Done /\ body.kind = "text"
  /\ body.payload = "none" /\ body.ws > 0
  /\ FailedWith("NoDataError")

\* C7: a NoDataError carries the currencies, startDate and endDate of the
\* caller's query, not the currency list augmented with the base currency.
C7_NoDataErrorCarriesQuery ==
  FailedWith("NoDataError") =>
     /\ outcome.error.currencies = call.query.currencies
     /\ outcome.error.startDate = call.query.startDate
     /\ outcome.error.endDate = call.query.endDate

C7_Witness ==
  /\ FailedWith("NoDataError")
  /\ request.currencies # call.query.currencies
  /\ outcome.error.currencies = call.query.currencies

\* C8: a call whose resolved query is invalid fails with ValidationError
\* and never invokes the fetcher.
C8_ValidationBeforeFetch ==
  (pc # "idle" /\ ~validateQuery(resolveQuery(call.query, clientBase))) =>
     /\ FailedWith("ValidationError")
     /\ fetchCount = 0
     /\ body = NoBody

C8_Witness ==
  /\ call.op = "getObservations"
  /\ FailedWith("ValidationError")
  /\ fetchCount = 0

\* the base the call resolves to: the query's, else the client's default
ResolvedBase ==
  IF call.query.baseCurrency # Undefined THEN call.query.baseCurrency ELSE clientBase

\* C9: a query whose only requested currency is the resolved base currency
\* fails with ValidationError.
C9_SelfPricedQueryRejected ==
  (pc # "idle" /\ Len(call.query.currencies) = 1
     /\ call.query.currencies[1] = ResolvedBase) =>
     FailedWith("ValidationError")

C9_Witness ==
  /\ call.op = "getRate" /\ call.currency = USD /\ call.date = D15
  /\ clientBase = USD
  /\ FailedWith("ValidationError")

\* the conditions the claim lists
ListedConditions(q) ==
  /\ q.currencies # <<>>
  /\ \A i \in 1..Len(q.currencies) :
        Len(q.currencies[i]) = 3 /\ \A k \in 1..3 : q.currencies[i][k] \in UpperCase
  /\ q.baseCurrency # Undefined =>
        Len(q.baseCurrency) = 3 /\ \A k \in 1..3 : q.baseCurrency[k] \in UpperCase
  /\ q.startDate.fmt
  /\ q.endDate # NoDate => q.endDate.fmt
  /\ q.endDate # NoDate => DateLeq(q.startDate, q.endDate)

SelfPriced(q) == q.currencies = <<q.baseCurrency>>

\* C10 as stated: the query handed to validate is accepted exactly when the
\* listed conditions hold.
C10_AcceptsExactlyListed ==
  pc # "idle" => (~FailedWith("ValidationError") <=> ListedConditions(resolved))

\* C10: the query handed to validate is accepted exactly when the listed
\* conditions hold and it is not a single-currency query whose currency is
\* its base currency; every other query fails with ValidationError.
C10_AcceptsListedAndNotSelfPriced ==
  pc # "idle" =>
     (~FailedWith("ValidationError")
        <=> (ListedConditions(resolved) /\ ~SelfPriced(resolved)))

C10_Witness ==
  /\ FailedWith("ValidationError")
  /\ ListedConditions(resolved)
  /\ SelfPriced(resolved)
  /\ call.op = "getRates"

\* C11: the base currency a call uses is the query's baseCurrency when it
\* has one, whatever the client default; otherwise the client's configured
\* default, which is EUR for a client built without one.
C11_BasePrecedence ==
  pc # "idle" =>
     /\ call.query.baseCurrency # Undefined =>
          resolved.baseCurrency = call.query.baseCurrency
     /\ (call.query.baseCurrency = Undefined /\ config # Undefined) =>
          resolved.baseCurrency = config
     /\ (call.query.baseCurrency = Undefined /\ config = Undefined) =>
          resolved.baseCurrency = EUR
     /\ resolved.currencies = call.query.currencies
     /\ pc = "fetching" =>
          /\ request.baseCurrency = EUR
          /\ resolved.baseCurrency # EUR => Includes(request.currencies, resolved.baseCurrency)

C11_Witness ==
  /\ pc = "fetching"
  /\ config = USD
  /\ call.query.baseCurrency = EUR
  /\ resolved.baseCurrency = EUR
  /\ request.currencies = call.query.currencies

\* C22: a call reaches the fetcher at most once, exactly once when the
\* resolved query passes validation and not at all otherwise; a rejected or
\* blank fetch ends the call with that rejection or with NoDataError after
\* that single fetch.
C22_OneFetchPerCall ==
  /\ fetchCount <= 1
  /\ pc = "idle" => fetchCount = 0
  /\ pc = "fetching" => fetchCount = 1
  /\ pc = "done" => fetchCount = (IF validateQuery(resolved) THEN 1 ELSE 0)
  /\ (pc = "done" /\ body.kind \in FetcherErrors) =>
       (fetchCount = 1 /\ FailedWith(body.kind))
  /\ (pc = "done" /\ body.kind = "text" /\ IsBlankBody(body)) =>
       (fetchCount = 1 /\ FailedWith("NoDataError"))

C22_Witness ==
  /\ pc = "done"
  /\ body.kind = "NetworkError"
  /\ fetchCount = 1
  /\ FailedWith("NetworkError")

\* fetchAndParse got past its two NoDataError checks and the decoder
FetchedAndParsed ==
  /\ pc = "done"
  /\ WellFormedBody
  /\ ~IsBlankBody(body)
  /\ Len(Decoded) > 0

\* C24: for the base EUR the query handed to the fetcher is the resolved
\* query and the decoded observations are returned as they are; for another
\* base the fetch query has baseCurrency EUR, the dates and frequency of the
\* resolved query and its currency list, with the base added at the end
\* exactly when the list does not hold it, and the observations returned are
\* those the adjuster makes from the decoded ones, the caller's currency
\* list and the real base.
C24_FetchQueryAndAdjustment ==
  fetchCount = 1 =>
     /\ resolved.baseCurrency = EUR =>
          /\ request = resolved
          /\ FetchedAndParsed => observations = Decoded
     /\ resolved.baseCurrency # EUR =>
          /\ request.baseCurrency = EUR
          /\ request.startDate = resolved.startDate
          /\ request.endDate = resolved.endDate
          /\ request.frequency = resolved.frequency
          /\ (\E i \in 1..Len(resolved.currencies) :
                 resolved.currencies[i] = resolved.baseCurrency)
               => request.currencies = resolved.currencies
          /\ (\A i \in 1..Len(resolved.currencies) :
                 resolved.currencies[i] # resolved.baseCurrency)
               => request.currencies = resolved.currencies \o <<resolved.baseCurrency>>
          /\ resolved.currencies = call.query.currencies
          /\ FetchedAndParsed =>
               observations = adjustForBaseCurrency(Decoded, call.query.currencies,
                                                    resolved.baseCurrency)

C24_Witness ==
  /\ FetchedAndParsed
  /\ call.op = "getRates"
  /\ resolved.baseCurrency = USD
  /\ call.query.currencies = <<USD, GBP>>
  /\ request.currencies = <<USD, GBP>>
  /\ Len(observations) > 0
  /\ observations # Decoded

\* no key occurs twice in a Map
DistinctKeys(m) == \A i, j \in 1..Len(m) : m[i][1] = m[j][1] => i = j

\* C27: the rates map of a getRates result has exactly one entry for every
\* date on which the pipeline produced an observation; under a date it
\* holds exactly the currencies that have an observation on that date, each
\* with the rate of such an observation; and the currencies field is the
\* list the caller gave, not the list sent to the fetcher.
C27_RatesGroupedByDate ==
  (Succeeded /\ call.op = "getRates") =>
     LET m == outcome.value.byDate
     IN  /\ DistinctKeys(m)
         /\ {m[i][1] : i \in 1..Len(m)} = ObservationDates
         /\ \A i \in 1..Len(m) :
              /\ DistinctKeys(m[i][2])
              /\ \A j \in 1..Len(m[i][2]) :
                   \E k \in 1..Len(observations) :
                      observations[k] = Observation(m[i][2][j][1],
                                                    observations[k].baseCurrency,
                                                    m[i][1], m[i][2][j][2])
         /\ \A k \in 1..Len(observations) :
              /\ MapHas(m, observations[k].date)
              /\ MapHas(MapGet(m, observations[k].date), observations[k].currency)
         /\ outcome.value.currencies = call.query.currencies

C27_Witness ==
  /\ Succeeded
  /\ call.op = "getRates"
  /\ call.query.currencies = <<GBP, EUR>>
  /\ request.currencies = <<GBP, EUR, USD>>
  /\ outcome.value.currencies = <<GBP, EUR>>
  /\ Len(outcome.value.byDate) = 2
  /\ Len(outcome.value.byDate[1][2]) = 2

\* C29: during and after a call the query object the caller passed holds
\* what it held when it was passed, the same baseCurrency (absent if it was
\* absent) and the same currencies; the resolved query and the fetch query
\* are that object or other objects, and the base currency is added to an
\* array of its own.
C29_CallerQueryUntouched ==
  pc # "idle" =>
     /\ Deref(call.heap, 1) = call.query
     /\ call.heap.arrays[1] = call.query.currencies
     /\ Deref(call.heap, call.resolvedRef) = resolved
     /\ fetchCount = 1 => Deref(call.heap, call.requestRef) = request

C29_Witness ==
  /\ pc = "done"
  /\ call.op = "getRates"
  /\ call.query.baseCurrency = USD
  /\ call.query.currencies = <<GBP, EUR>>
  /\ call.resolvedRef = 1
  /\ request.currencies = <<GBP, EUR, USD>>
  /\ call.heap.objects[call.requestRef].currencies = 2
  /\ Deref(call.heap, 1) = call.query

\* C30: every entry of the rates map of a getRateHistory or getRate result
\* is the date and rate of an observation of the requested currency
\* (result.currency) priced in result.base.
C30_RatesOfRequestedCurrency ==
  (Succeeded /\ call.op \in {"getRateHistory", "getRate"}) =>
     \A i \in 1..Len(outcome.value.rates) :
        \E k \in 1..Len(observations) :
           observations[k] = Observation(outcome.value.currency, outcome.value.base,
                                         outcome.value.rates[i][1],
                                         outcome.value.rates[i][2])

\* C17: when the base of a call is not EUR, every observation the pipeline
\* hands to the operation has that base as baseCurrency and a currency other
\* than it, and so do the observations getObservations returns and the
\* currencies getRates lists under each date.
C17_NonEurBaseObservations ==
  (Succeeded /\ resolved.baseCurrency # EUR) =>
     /\ \A i \in 1..Len(observations) :
          /\ observations[i].baseCurrency = resolved.baseCurrency
          /\ observations[i].currency # resolved.baseCurrency
     /\ call.op = "getObservations" => outcome.value.observations = observations
     /\ call.op = "getRates" =>
          \A i \in 1..Len(outcome.value.byDate) :
             ~MapHas(outcome.value.byDate[i][2], resolved.baseCurrency)

C17_Witness ==
  /\ Succeeded
  /\ call.op = "getObservations"
  /\ resolved.baseCurrency = USD
  /\ \E i \in 1..Len(Decoded) : Decoded[i].currency = USD
  /\ Len(outcome.value.observations) = 2
  /\ \E i \in 1..2 : outcome.value.observations[i].currency = EUR
  /\ \E i \in 1..2 : outcome.value.observations[i].currency = GBP

\* C20: the base field of a getRateHistory, getRate or getRates result is
\* the baseCurrency of the first observation of the pipeline's output when
\* there is one and the resolved query's base otherwise; when the resolved
\* base is not EUR it is that base.
C20_BaseFromFirstObservation ==
  (Succeeded /\ call.op \in {"getRateHistory", "getRate", "getRates"}) =>
     /\ Len(observations) > 0 => outcome.value.base = observations[1].baseCurrency
     /\ Len(observations) = 0 => outcome.value.base = resolved.baseCurrency
     /\ resolved.baseCurrency # EUR => outcome.value.base = resolved.baseCurrency

C20_Witness ==
  /\ Succeeded
  /\ call.op = "getRateHistory"
  /\ resolved.baseCurrency = EUR
  /\ Len(observations) > 0
  /\ outcome.value.base = GBP

\* ------------------------------------------------ properties of the decoder
\* the structural defects a document has, by the name the message gives them
Defects(doc) ==
  IF ~doc.hasDimensions \/ ~doc.hasSeriesDims \/ ~doc.hasObservationDims
  THEN {"structure.dimensions"}
  ELSE {n \in {"CURRENCY", "CURRENCY_DENOM"} :
          ~\E i \in 1..Len(doc.series) : doc.series[i].id = n}
       \cup {n \in {"TIME_PERIOD"} :
               ~\E i \in 1..Len(doc.observation) : doc.observation[i].id = n}
       \cup {n \in {"missing dimension values"} :
               \/ \E i \in 1..Len(doc.series) :
                    /\ doc.series[i].id \in {"CURRENCY", "CURRENCY_DENOM"}
                    /\ ~doc.series[i].hasValues
               \/ \E i \in 1..Len(doc.observation) :
                    /\ doc.observation[i].id = "TIME_PERIOD"
                    /\ ~doc.observation[i].hasValues}

LabDecoded == lab.stage \in {"decoded", "grouped"}

\* C12: decoding a document that lacks the series or observation container
\* of structure.dimensions, the CURRENCY, CURRENCY_DENOM or TIME_PERIOD
\* dimension, or the values list of one of them, fails with a ParseError
\* whose message names a defect the document has, whatever its dataSets
\* hold, absent and empty dataSets included.
C12_DefectsFailDecoding ==
  (LabDecoded /\ Defects(lab.doc) # {}) =>
     /\ ~lab.out.ok
     /\ lab.out.reason \in Defects(lab.doc)
     /\ lab.out.obs = <<>>

C12_Witness ==
  /\ LabDecoded
  /\ Defects(lab.doc) = {"CURRENCY_DENOM"}
  /\ lab.doc.hasDataSets /\ lab.doc.dataSets = <<>>
  /\ ~lab.out.ok /\ lab.out.reason = "CURRENCY_DENOM"

\* the document without its dataSets that have no series property
WithSeriesOnly(doc) ==
  [doc EXCEPT !.dataSets = SelectSeq(doc.dataSets, LAMBDA ds : ds.hasSeries)]

\* C13: decoding a document with valid dimension declarations raises no
\* error; it returns the empty sequence when dataSets is absent or empty,
\* and a dataSet without a series property contributes nothing and does not
\* stop the decoding of the others.
C13_NoDataIsEmptySequence ==
  (LabDecoded /\ Defects(lab.doc) = {}) =>
     /\ lab.out.ok
     /\ (~lab.doc.hasDataSets \/ lab.doc.dataSets = <<>>) => lab.out.obs = <<>>
     /\ (\A i \in 1..Len(lab.doc.dataSets) : ~lab.doc.dataSets[i].hasSeries)
          => lab.out.obs = <<>>
     /\ lab.out.obs = parseJsonResponse(WithSeriesOnly(lab.doc)).obs

C13_Witness ==
  /\ LabDecoded
  /\ Defects(lab.doc) = {}
  /\ ~lab.doc.hasDataSets
  /\ lab.out.ok /\ lab.out.obs = <<>>

\* position of the dimension with this id in a list of declarations
PositionOf(dims, name) == CHOOSE i \in 1..Len(dims) : dims[i].id = name

\* the (dataSet, series, entry) positions of a document
EntryPositions(doc) ==
  UNION {UNION {{<<d, s, e>> : e \in 1..Len(doc.dataSets[d].series[s].observations)} :
                  s \in 1..Len(doc.dataSets[d].series)} :
           d \in {i \in 1..Len(doc.dataSets) : doc.dataSets[i].hasSeries}}

\* the entries that qualify: the key has an index at both positions, both
\* coded values have an id, the time-index is within TIME_PERIOD's values
\* and the first tuple element is not null
Qualifies(doc, q) ==
  LET sr == doc.dataSets[q[1]].series[q[2]]
      en == sr.observations[q[3]]
      cPos == PositionOf(doc.series, "CURRENCY")
      dPos == PositionOf(doc.series, "CURRENCY_DENOM")
      cVals == doc.series[cPos].values
      dVals == doc.series[dPos].values
      periods == doc.observation[PositionOf(doc.observation, "TIME_PERIOD")].values
  IN  /\ Len(sr.key) >= cPos /\ Len(sr.key) >= dPos
      /\ sr.key[cPos] \in 0..(Len(cVals) - 1) /\ cVals[sr.key[cPos] + 1].hasId
      /\ sr.key[dPos] \in 0..(Len(dVals) - 1) /\ dVals[sr.key[dPos] + 1].hasId
      /\ en[1] \in 0..(Len(periods) - 1)
      /\ en[2] # Null

QualifyingEntries(doc) == {q \in EntryPositions(doc) : Qualifies(doc, q)}

ObservationOf(doc, q) ==
  LET sr == doc.dataSets[q[1]].series[q[2]]
      en == sr.observations[q[3]]
      cPos == PositionOf(doc.series, "CURRENCY")
      dPos == PositionOf(doc.series, "CURRENCY_DENOM")
      periods == doc.observation[PositionOf(doc.observation, "TIME_PERIOD")].values
  IN  Observation(doc.series[cPos].values[sr.key[cPos] + 1].id,
                  doc.series[dPos].values[sr.key[dPos] + 1].id,
                  periods[en[1] + 1], en[2])

\* N: the series of all dataSets; M: the time-indices TIME_PERIOD declares
SeriesCount(doc) ==
  Cardinality(UNION {{<<d, s>> : s \in 1..Len(doc.dataSets[d].series)} :
                       d \in 1..Len(doc.dataSets)})

PeriodCount(doc) ==
  Len(doc.observation[PositionOf(doc.observation, "TIME_PERIOD")].values)

\* C14: decoding a document with valid dimension declarations never fails
\* and emits each observation exactly as many times as there are qualifying
\* (series, time-index) entries that carry it, and nothing else: at most
\* N x M observations, none with a null rate.
C14_OneObservationPerQualifyingEntry ==
  (LabDecoded /\ Defects(lab.doc) = {}) =>
     /\ lab.out.ok
     /\ Len(lab.out.obs) = Cardinality(QualifyingEntries(lab.doc))
     /\ \A i \in 1..Len(lab.out.obs) :
          /\ lab.out.obs[i].rate # Null
          /\ Cardinality({j \in 1..Len(lab.out.obs) : lab.out.obs[j] = lab.out.obs[i]})
               = Cardinality({q \in QualifyingEntries(lab.doc) :
                                ObservationOf(lab.doc, q) = lab.out.obs[i]})
     /\ \A q \in QualifyingEntries(lab.doc) :
          \E i \in 1..Len(lab.out.obs) : lab.out.obs[i] = ObservationOf(lab.doc, q)
     /\ Len(lab.out.obs) <= SeriesCount(lab.doc) * PeriodCount(lab.doc)

C14_Witness ==
  /\ LabDecoded
  /\ Defects(lab.doc) = {}
  /\ lab.doc.dataSets =
       <<DataSet(<<Series(<<0, 1, 0>>, <<<<0, R84>>, <<1, Null>>>>),
                   Series(<<0, 2, 0>>, <<<<0, R103>>>>)>>)>>
  /\ lab.out.ok
  /\ lab.out.obs = <<Observation(GBP, EUR, D14, R84)>>

\* ----------------------------------------------- properties of the adjuster
LabAdjusted == lab.stage \in {"adjusted", "readjusted"}

\* the input positions that hold a rate of the target base on date d
NativePositions(d) ==
  {i \in 1..Len(lab.input) : lab.input[i].currency = lab.base /\ lab.input[i].date = d}

\* nativeRate[d]: the rate of the target base entered last for date d
NativeRate(d) ==
  lab.input[CHOOSE i \in NativePositions(d) : \A j \in NativePositions(d) : j <= i].rate

HasNonZeroNative(d) == NativePositions(d) # {} /\ NativeRate(d) # Zero

\* the input positions the adjuster must answer with a cross rate
CrossPositions ==
  {i \in 1..Len(lab.input) :
     lab.input[i].currency # lab.base /\ HasNonZeroNative(lab.input[i].date)}

NthCrossPosition(k) ==
  CHOOSE i \in CrossPositions : Cardinality({j \in CrossPositions : j <= i}) = k

\* the emitted observations of a currency other than EUR, in order
CrossPart == SelectSeq(lab.adjusted, LAMBDA o : o.currency # EUR)
EurPart == SelectSeq(lab.adjusted, LAMBDA o : o.currency = EUR)

\* C15: the adjuster answers an input observation of another currency with
\* {same date, same currency, baseCurrency = targetBase, rate = obs.rate /
\* nativeRate[date]} exactly when the target base has a non-zero rate on that
\* same date, and emits no other cross rate.
C15_CrossRateIffSameDateNonZeroBase ==
  LabAdjusted =>
     /\ Len(CrossPart) = Cardinality(CrossPositions)
     /\ \A k \in 1..Len(CrossPart) :
          LET o == lab.input[NthCrossPosition(k)]
          IN  CrossPart[k] =
                Observation(o.currency, lab.base, o.date,
                            RatDiv(o.rate, NativeRate(o.date)))

C15_Witness ==
  /\ LabAdjusted
  /\ lab.input = <<Observation(USD, EUR, D14, R103), Observation(GBP, EUR, D14, R2),
                   Observation(GBP, EUR, D15, R2)>>
  /\ CrossPart = <<Observation(GBP, USD, D14, <<200, 103>>)>>

NativeDates == {d \in {lab.input[i].date : i \in 1..Len(lab.input)} : HasNonZeroNative(d)}

\* C16: the adjuster emits {date, EUR, targetBase, 1 / nativeRate[date]}
\* once for every date with a non-zero rate of the target base when the
\* requested list includes EUR, and no observation of EUR when it does not.
C16_EurSynthesizedIffRequested ==
  LabAdjusted =>
     /\ Includes(lab.requested, EUR) =>
          /\ Len(EurPart) = Cardinality(NativeDates)
          /\ {EurPart[i] : i \in 1..Len(EurPart)} =
               {Observation(EUR, lab.base, d, RatDiv(One, NativeRate(d))) :
                  d \in NativeDates}
     /\ ~Includes(lab.requested, EUR) => EurPart = <<>>

C16_Witness ==
  /\ LabAdjusted
  /\ Includes(lab.requested, EUR)
  /\ lab.input = <<Observation(USD, EUR, D14, R103), Observation(USD, EUR, D15, Zero)>>
  /\ lab.adjusted = <<Observation(EUR, USD, D14, <<100, 103>>)>>

LabReadjusted == lab.stage = "readjusted" /\ Includes(lab.requested, EUR)

\* the re-adjusted observations of a currency other than EUR
ReadjustedCross == SelectSeq(lab.readjusted, LAMBDA o : o.currency # EUR)

\* C18 as stated: adjusting EUR-based observations to base X with EUR
\* requested and re-adjusting the result to EUR reproduces every original
\* observation, of every currency and on every date.
C18_RoundTripReproducesEveryRate ==
  LabReadjusted =>
     \A i \in 1..Len(lab.input) :
        \E j \in 1..Len(lab.readjusted) : lab.readjusted[j] = lab.input[i]

\* C18: adjusting EUR-based observations to base X with EUR requested and
\* re-adjusting the result to EUR reproduces, exactly, the original
\* observation of every currency other than X on every date on which X has
\* a non-zero rate, and no other observation of those currencies.
C18_RoundTripReproducesCrossedRates ==
  LabReadjusted =>
     /\ \A i \in CrossPositions :
          \E j \in 1..Len(lab.readjusted) : lab.readjusted[j] = lab.input[i]
     /\ Len(ReadjustedCross) = Cardinality(CrossPositions)
     /\ \A j \in 1..Len(ReadjustedCross) :
          \E i \in CrossPositions : lab.input[i] = ReadjustedCross[j]

C18_Witness ==
  /\ LabReadjusted
  /\ lab.input = <<Observation(USD, EUR, D14, R103), Observation(GBP, EUR, D14, R2),
                   Observation(GBP, EUR, D15, R2)>>
  /\ lab.adjusted = <<Observation(GBP, USD, D14, <<200, 103>>),
                      Observation(EUR, USD, D14, <<100, 103>>)>>
  /\ ReadjustedCross = <<Observation(GBP, EUR, D14, R2)>>

\* a Map as the set of its entries, whatever their insertion order
AsMapping(m) == {<<m[i][1], m[i][2]>> : i \in 1..Len(m)}
AsNestedMapping(m) == {<<m[i][1], AsMapping(m[i][2])>> : i \in 1..Len(m)}

\* C19: the date -> rate mapping and the date -> (currency -> rate) mapping
\* built from the decoded observations of a document are those built from
\* any reordering of its dataSets and of the series inside them.
C19_GroupingIgnoresSourceOrder ==
  lab.stage = "grouped" =>
     /\ AsMapping(lab.single) = AsMapping(lab.singleVariant)
     /\ AsNestedMapping(lab.multi) = AsNestedMapping(lab.multiVariant)

\* ------------------------------------------------ properties of the fetcher
\* C21: the event that happens first decides the outcome of get(): the
\* timer gives NetworkError with the configured duration (30000 ms when none
\* is configured) and the URL, an external abort gives NetworkError, a
\* transport failure gives NetworkError wrapping the cause, and a response
\* that completed first stays the outcome whatever the timer or the signal
\* do later; the timer never fires before its duration has passed.
C21_FirstEventDecides ==
  LET f == lab.fetcher
  IN  /\ (f.phase = "inflight") = (f.first = "none" /\ f.phase # "none")
      /\ f.phase = "inflight" => f.result.kind = "pending"
      /\ f.first = "timer" =>
           /\ f.result = TimeoutError(f.timeoutMs, f.url)
           /\ f.now >= f.timeoutMs
           /\ f.timeoutMs \in {DEFAULT_TIMEOUT_MS, 3000, 5000}
      /\ f.first = "abort" => f.result.kind = "NetworkError"
      /\ f.first = "failure" =>
           f.result.kind = "NetworkError" /\ f.result.cause \in Causes
      /\ f.first = "response" =>
           /\ f.result.kind \in {"text", "ApiError"}
           /\ f.result \in {ResponseOutcome(r) : r \in Responses}

C21_Witness ==
  /\ lab.fetcher.first = "response"
  /\ lab.fetcher.signal = "aborted"
  /\ lab.fetcher.now > lab.fetcher.timeoutMs
  /\ lab.fetcher.result.kind = "text"

\* C25: the currency and the denominator of a series come from the key
\* segments at the positions where CURRENCY and CURRENCY_DENOM are declared,
\* so a document and the same document with the series dimensions declared
\* in another order, the key segments moved with them, decode alike.
C25_ResolvedByPosition ==
  (LabDecoded /\ lab.relation = "dimensions") =>
     /\ lab.outVariant = lab.out
     /\ (Defects(lab.variant) = {}) =>
          \A q \in QualifyingEntries(lab.variant) :
             \E i \in 1..Len(lab.out.obs) : lab.out.obs[i] = ObservationOf(lab.variant, q)

C25_Witness ==
  /\ LabDecoded
  /\ lab.relation = "dimensions"
  /\ Defects(lab.doc) = {}
  /\ PositionOf(lab.doc.series, "CURRENCY") = 2
  /\ PositionOf(lab.variant.series, "CURRENCY") = 1
  /\ PositionOf(lab.variant.series, "CURRENCY_DENOM") = 3
  /\ lab.doc.dataSets = <<DataSet(<<Series(<<0, 1, 0>>, <<<<0, R84>>, <<1, Null>>>>)>>)>>
  /\ lab.variant.dataSets = <<DataSet(<<Series(<<1, 0, 0>>, <<<<0, R84>>, <<1, Null>>>>)>>)>>
  /\ lab.outVariant.obs = <<Observation(GBP, EUR, D14, R84)>>

\* (dataSet, series, entry) positions in encounter order
Earlier(a, b) ==
  \/ a[1] < b[1]
  \/ a[1] = b[1] /\ a[2] < b[2]
  \/ a[1] = b[1] /\ a[2] = b[2] /\ a[3] < b[3]

\* the k-th qualifying entry of a document in encounter order
NthQualifying(doc, k) ==
  CHOOSE q \in QualifyingEntries(doc) :
     Cardinality({r \in QualifyingEntries(doc) : Earlier(r, q)}) = k - 1

\* C26: the decoder's output lists the observations of the qualifying
\* entries in encounter order, dataSet by dataSet and series by series,
\* unsorted and with every dataSet's observations kept.
C26_EncounterOrder ==
  (LabDecoded /\ Defects(lab.doc) = {}) =>
     /\ Len(lab.out.obs) = Cardinality(QualifyingEntries(lab.doc))
     /\ \A k \in 1..Len(lab.out.obs) :
          lab.out.obs[k] = ObservationOf(lab.doc, NthQualifying(lab.doc, k))

C26_Witness ==
  /\ LabDecoded
  /\ Defects(lab.doc) = {}
  /\ lab.doc.dataSets =
       <<DataSet(<<Series(<<0, 0, 0>>, <<<<0, R103>>, <<1, R2>>>>)>>),
         DataSet(<<Series(<<0, 0, 0>>, <<<<0, R2>>>>)>>)>>
  /\ lab.out.obs = <<Observation(USD, EUR, D14, R103), Observation(USD, EUR, D15, R2),
                     Observation(USD, EUR, D14, R2)>>

\* ------------------------------------------- properties of the date helper
\* the number of the day y-m-d, counted from 0001-01-01 as day 1
DayNumber(t) ==
  LET leap == (t.y % 4 = 0 /\ t.y % 100 # 0) \/ t.y % 400 = 0
      before == <<0, 31, 59, 90, 120, 151, 181, 212, 243, 273, 304, 334>>
      p == t.y - 1
  IN  365 * p + (p \div 4) - (p \div 100) + (p \div 400)
      + before[t.m] + (IF leap /\ t.m > 2 THEN 1 ELSE 0) + t.d

\* C28: for a valid date d and n >= 0, subtractCalendarDays(d, n) is a text
\* of the YYYY-MM-DD shape naming a calendar date, the one n days before d;
\* for n = 0 it is d.
C28_ExactlyNDaysBefore ==
  lab.stage = "subtracted" =>
     /\ lab.back.fmt
     /\ ParsesAsDate(lab.back)
     /\ DayNumber(lab.back) = DayNumber(lab.dateStr) - lab.days
     /\ lab.days = 0 => lab.back = lab.dateStr

\* C23: for any interleaving of two public operations on one client, the
\* client's state stays as constructed and each finished call's result or
\* error is the one the same call produces alone on a client constructed
\* from the same configuration, given the same fetch response.
Alone(a) ==
  LET fresh == Constructor(config)
      s == Started(a.call, fresh)
  IN  IF s.pc = "done" THEN s.outcome ELSE Settled(s, a.body, fresh).outcome

C23_ConcurrentCallsIndependent ==
  lab.stage = "concurrent" =>
    /\ clientBase = Constructor(config)
    /\ \A i \in Callers :
         lab.calls[i].pc = "done" => lab.calls[i].outcome = Alone(lab.calls[i])

\* the second call starts while the first awaits its fetch and finishes
\* before it; the calls resolve different bases and return different results
C23_Witness ==
  /\ lab.stage = "concurrent"
  /\ lab.events = <<<<"invoke", 1>>, <<"invoke", 2>>, <<"settle", 2>>, <<"settle", 1>>>>
  /\ lab.calls[1].resolved.baseCurrency = GBP
  /\ lab.calls[2].resolved.baseCurrency = clientBase
  /\ clientBase # GBP
  /\ lab.calls[1].outcome.status = "ok"
  /\ lab.calls[2].outcome.status = "ok"
  /\ lab.calls[1].body # lab.calls[2].body
  /\ lab.calls[1].outcome # lab.calls[2].outcome

====
